---------------------------- MODULE Spec2Model ----------------------------
(***************************************************************************)
(* A model of Cartouille (Plonk42/cartouille): the drawing state machine,  *)
(* the collection store (features, layers, visibility, folders), the       *)
(* element <-> GeoJSON conversion and the localStorage / file persistence. *)
(*                                                                         *)
(* JavaScript values are modelled as follows.                              *)
(*   - an object is a record; a key that is absent (or holds undefined)    *)
(*     is absent from the record's DOMAIN;                                 *)
(*   - null for a point-valued field is the empty sequence <<>>, a point   *)
(*     value p is <<p>>; null for a string-valued field is "null";         *)
(*   - a folderId of null is 0 (ids are positive);                         *)
(*   - a Map is a function on its key set; an Array is a sequence;         *)
(*   - a GeoJSON position [lng, lat] is the pair <<lng, lat>>;             *)
(*   - a thrown exception is the record [type |-> "Error"] where a value   *)
(*     was expected, and the error field of the world where a handler ran. *)
(***************************************************************************)
EXTENDS Integers, Sequences, FiniteSets, TLC

VARIABLES
    state,          \* the `state` singleton of state.js (map view included)
    document,       \* the DOM inputs the handlers read and write
    localStorage,   \* the item 'ignMapData': <<>> (absent) or <<text>>
    error,          \* how the last handler ended: none / caught / uncaught
    idCounter,      \* ids handed out so far by generateId
    probe           \* the last operation run: its name, its input, the state it
                    \* started from (the value under conversion in the round trip)

vars == <<state, document, localStorage, error, idCounter, probe>>

----------------------------------------------------------------------------
(* Bounds of the model                                                     *)

NPoints == 3        \* distinct map locations that can be clicked
MaxFeatures == 2    \* features kept in the collection
MaxFolders == 1     \* folders kept in the folder list
MaxIds == 3         \* ids generateId hands out in one run
MaxDrawPoints == 3  \* points the line / polygon tool holds between two gestures
MaxDrawn == 1       \* features kept while drawing

NoFolder == 0

Pt(i) == [lat |-> i, lng |-> 10 + i]
Points == {Pt(i) : i \in 1..NPoints}

Null == <<>>
Some(v) == <<v>>

Thrown == [type |-> "Error"]

Has(obj, key) == key \in DOMAIN obj

\* obj with the keys of extra added or overwritten (Object.assign, obj.k = v)
Assign(obj, extra) == extra @@ obj

\* obj without key
Without(obj, key) == [k \in DOMAIN obj \ {key} |-> obj[k]]

Last(s) == s[Len(s)]
Front(s) == SubSeq(s, 1, Len(s) - 1)

Abs(n) == IF n < 0 THEN -n ELSE n
Min2(a, b) == IF a < b THEN a ELSE b
Max2(a, b) == IF a < b THEN b ELSE a

RECURSIVE SeqSum(_)
SeqSum(s) == IF s = <<>> THEN 0 ELSE s[1] + SeqSum(Tail(s))

RECURSIVE SeqMin(_)
SeqMin(s) == IF Len(s) = 1 THEN s[1] ELSE Min2(s[1], SeqMin(Tail(s)))

RECURSIVE SeqMax(_)
SeqMax(s) == IF Len(s) = 1 THEN s[1] ELSE Max2(s[1], SeqMax(Tail(s)))

----------------------------------------------------------------------------
(* config.js                                                               *)

DefaultColor == "#3388ff"

colors(key) ==
    CASE key = "drawing-marker" -> "#e74c3c"
      [] key = "drawing-circle" -> "#9b59b6"
      [] key = "drawing-line" -> "#3498db"
      [] key = "drawing-bearing" -> "#f39c12"
      [] key = "drawing-polygon" -> "#2ecc71"
      [] key = "measurement-distance" -> "#16a085"
      [] key = "measurement-bearing" -> "#8e44ad"
      [] key = "measurement-area" -> "#27ae60"
      [] key = "measurement-center" -> "#e74c3c"
      [] key = "measurement-centroid" -> "#9b59b6"
      [] key = "measurement-bbox" -> "#3498db"
      [] key = "measurement-along" -> "#1abc9c"
      [] OTHER -> DefaultColor

----------------------------------------------------------------------------
(* The geometry library (turf, Leaflet's map.distance), on the model's     *)
(* integer grid.  Validation done by the constructors is kept; the         *)
(* geodesic formulas are replaced by grid arithmetic in whole metres.      *)

coord(p) == <<p.lng, p.lat>>
coords(points) == [i \in 1..Len(points) |-> coord(points[i])]
latlng(c) == [lat |-> c[2], lng |-> c[1]]
latlngs(cs) == [i \in 1..Len(cs) |-> latlng(cs[i])]

\* turf.lineString throws unless it is given two positions or more
lineStringOk(cs) == Len(cs) >= 2

\* turf.polygon throws unless the ring has four positions or more and is closed
polygonOk(ring) == Len(ring) >= 4 /\ ring[1] = Last(ring)

distanceKm(p, q) == Abs(p.lat - q.lat) + Abs(p.lng - q.lng)
distanceM(p, q) == 1000 * distanceKm(p, q)

lengthKm(points) ==
    SeqSum([i \in 1..(Len(points) - 1) |-> distanceKm(points[i], points[i + 1])])

bboxOf(points) ==
    [minLat |-> SeqMin([i \in 1..Len(points) |-> points[i].lat]),
     minLng |-> SeqMin([i \in 1..Len(points) |-> points[i].lng]),
     maxLat |-> SeqMax([i \in 1..Len(points) |-> points[i].lat]),
     maxLng |-> SeqMax([i \in 1..Len(points) |-> points[i].lng])]

\* turf.bboxPolygon: the closed rectangle ring of a bbox
bboxRing(b) ==
    << <<b.minLng, b.minLat>>, <<b.maxLng, b.minLat>>, <<b.maxLng, b.maxLat>>,
       <<b.minLng, b.maxLat>>, <<b.minLng, b.minLat>> >>

\* the area of the bounding rectangle, in grid units, stands for turf.area
areaM2(points) ==
    LET b == bboxOf(points)
    IN  1000000 * (b.maxLat - b.minLat) * (b.maxLng - b.minLng)

\* turf.center: the centre of the bounding box (doubled grid, to stay integral)
centerOf(points) ==
    LET b == bboxOf(points)
    IN  [lat |-> b.minLat + b.maxLat, lng |-> b.minLng + b.maxLng]

\* turf.centerOfMass, on the same doubled grid
centroidOf(points) ==
    [lat |-> (2 * SeqSum([i \in 1..Len(points) |-> points[i].lat])) \div Len(points),
     lng |-> (2 * SeqSum([i \in 1..Len(points) |-> points[i].lng])) \div Len(points)]

bearingOf(p, q) ==
    CASE q.lat > p.lat /\ q.lng = p.lng -> 0
      [] q.lat > p.lat /\ q.lng > p.lng -> 45
      [] q.lat = p.lat /\ q.lng > p.lng -> 90
      [] q.lat < p.lat /\ q.lng > p.lng -> 135
      [] q.lat < p.lat /\ q.lng = p.lng -> 180
      [] q.lat < p.lat /\ q.lng < p.lng -> -135
      [] q.lat = p.lat /\ q.lng < p.lng -> -90
      [] q.lat > p.lat /\ q.lng < p.lng -> -45
      [] OTHER -> 0


\* Math.round(bearing / 45) % 8, an index into the eight cardinals
getCardinalDirection(bearing) ==
    LET cardinals == <<"N", "NE", "E", "SE", "S", "SO", "O", "NO">>
    IN  cardinals[(((2 * bearing + 45) \div 90) % 8) + 1]

\* turf.along: the point reached after distM metres along the line, on a grid
\* refined a thousand times; past the end it is the last vertex
RECURSIVE alongPoint(_, _)
alongPoint(points, distM) ==
    IF Len(points) = 1
    THEN [lat |-> 1000 * points[1].lat, lng |-> 1000 * points[1].lng]
    ELSE LET p == points[1]
             q == points[2]
             seg == distanceM(p, q)
         IN  IF distM < seg
             THEN [lat |-> 1000 * p.lat + ((q.lat - p.lat) * distM) \div (seg \div 1000),
                   lng |-> 1000 * p.lng + ((q.lng - p.lng) * distM) \div (seg \div 1000)]
             ELSE alongPoint(Tail(points), distM - seg)

----------------------------------------------------------------------------
(* measurements.js: the Result each measurement kind computes              *)

calculateDistance(p1, p2) ==
    [type |-> "measurement-distance",
     title |-> "Mesure de distance",
     data |-> [start |-> p1, end |-> p2,
               distanceKm |-> distanceKm(p1, p2), distanceM |-> distanceM(p1, p2)]]

calculateBearing(p1, p2) ==
    LET bearing == bearingOf(p1, p2)
        normalizedBearing == IF bearing < 0 THEN bearing + 360 ELSE bearing
    IN  [type |-> "measurement-bearing",
         title |-> "Mesure d'azimut",
         data |-> [start |-> p1, end |-> p2,
                   bearing |-> normalizedBearing,
                   cardinal |-> getCardinalDirection(normalizedBearing),
                   distanceKm |-> distanceKm(p1, p2), distanceM |-> distanceM(p1, p2)]]

calculateArea(points) ==
    LET ring == Append(points, points[1])
    IN  [type |-> "measurement-area",
         title |-> "Mesure de surface",
         data |-> [points |-> points,
                   areaM2 |-> areaM2(points),
                   areaKm2 |-> areaM2(points) \div 1000000,
                   areaHa |-> areaM2(points) \div 10000,
                   perimeterM |-> 1000 * lengthKm(ring),
                   perimeterKm |-> lengthKm(ring)]]

calculateCenter(points) ==
    [type |-> "measurement-center",
     title |-> "Centre de zone",
     data |-> [points |-> points,
               center |-> centerOf(points),
               areaM2 |-> areaM2(points),
               areaHa |-> areaM2(points) \div 10000]]

calculateCentroid(points) ==
    [type |-> "measurement-centroid",
     title |-> "Centre de masse",
     data |-> [points |-> points,
               centroid |-> centroidOf(points),
               areaM2 |-> areaM2(points),
               areaHa |-> areaM2(points) \div 10000]]

calculateBbox(points) ==
    LET b == bboxOf(points)
    IN  [type |-> "measurement-bbox",
         title |-> "Boîte englobante",
         data |-> [points |-> points,
                   bbox |-> b,
                   width |-> 1000 * (b.maxLng - b.minLng),
                   height |-> 1000 * (b.maxLat - b.minLat),
                   areaM2 |-> areaM2(points),
                   areaHa |-> areaM2(points) \div 10000]]

calculateAlong(points) ==
    LET lengthM == 1000 * lengthKm(points)
    IN  [type |-> "measurement-along",
         title |-> "Point sur ligne",
         data |-> [points |-> points,
                   lengthM |-> lengthM,
                   lengthKm |-> lengthKm(points),
                   alongPoint |-> alongPoint(points, lengthM \div 2),
                   alongDistance |-> lengthM \div 2,
                   alongPercent |-> 50]]

----------------------------------------------------------------------------
(* geojson.js: element <-> GeoJSON Feature                                 *)

\* data.key || fallback, for a string
OrElse(obj, key, fallback) ==
    IF Has(obj, key) /\ obj[key] # "" THEN obj[key] ELSE fallback

\* data.folderId || null
OrNull(obj, key) ==
    IF Has(obj, key) /\ obj[key] # NoFolder THEN obj[key] ELSE NoFolder

\* properties.key = data.key: an undefined value leaves the key absent
Copy(obj, keys) == [k \in keys \cap DOMAIN obj |-> obj[k]]

\* a number that an `if (value)` test lets through
Truthy(obj, key) == Has(obj, key) /\ obj[key] # 0

pointGeometry(c) == [type |-> "Point", coordinates |-> c]
lineStringGeometry(cs) == [type |-> "LineString", coordinates |-> cs]
polygonGeometry(ring) == [type |-> "Polygon", coordinates |-> <<ring>>]
geometryCollection(g1, g2) == [type |-> "GeometryCollection", geometries |-> <<g1, g2>>]

Feature(id, geometry, properties) ==
    [type |-> "Feature", id |-> id, geometry |-> geometry, properties |-> properties]

elementToGeoJSON(element) ==
    LET id == element.id
        type == element.type
        data == element.data
        properties ==
            [id |-> id,
             type |-> type,
             title |-> OrElse(data, "title", ""),
             description |-> OrElse(data, "description", ""),
             color |-> OrElse(data, "color", DefaultColor),
             folderId |-> OrNull(data, "folderId")]
        closed == Append(coords(data.points), coord(data.points[1]))
    IN  CASE type = "marker" ->
                Feature(id, pointGeometry(<<data.lng, data.lat>>), properties)
          [] type = "circle" ->
                Feature(id, pointGeometry(coord(data.center)),
                        Assign(properties, Copy(data, {"radius"})))
          [] type \in {"line", "bearing"} ->
                IF ~(Has(data, "start") /\ Has(data, "end"))
                THEN Thrown     \* data.start.lng of undefined
                ELSE Feature(id, lineStringGeometry(<<coord(data.start), coord(data.end)>>),
                             Assign(properties, Copy(data, {"distance", "bearing"})))
          [] type = "polygon" ->
                \* the ring is handed to turf.polygon as it is, not closed
                IF ~polygonOk(coords(data.points))
                THEN Thrown
                ELSE Feature(id, polygonGeometry(coords(data.points)), properties)
          [] type \in {"measurement-distance", "measurement-bearing"} ->
                Feature(id, lineStringGeometry(<<coord(data.start), coord(data.end)>>),
                        Assign(properties,
                               Copy(data, {"distanceM", "distanceKm"})
                               @@ (IF Has(data, "bearing")
                                   THEN Copy(data, {"bearing", "cardinal"})
                                   ELSE <<>>)))
          [] type = "measurement-area" ->
                IF ~polygonOk(closed)
                THEN Thrown
                ELSE Feature(id, polygonGeometry(closed),
                             Assign(properties,
                                    Copy(data, {"areaM2", "areaHa", "areaKm2",
                                                "perimeterM", "perimeterKm"})))
          [] type \in {"measurement-center", "measurement-centroid"} ->
                LET centerProp == IF type = "measurement-center" THEN "center" ELSE "centroid"
                    centerPoint == data[centerProp]
                IN  IF ~polygonOk(closed)
                    THEN Thrown
                    ELSE Feature(id,
                                 geometryCollection(polygonGeometry(closed),
                                                    pointGeometry(coord(centerPoint))),
                                 Assign(properties,
                                        Copy(data, {centerProp})
                                        @@ (IF Truthy(data, "areaM2")
                                            THEN Copy(data, {"areaM2"}) ELSE <<>>)
                                        @@ (IF Truthy(data, "areaHa")
                                            THEN Copy(data, {"areaHa"}) ELSE <<>>)))
          [] type = "measurement-bbox" ->
                IF ~polygonOk(closed)
                THEN Thrown
                ELSE Feature(id,
                             geometryCollection(polygonGeometry(closed),
                                                polygonGeometry(bboxRing(data.bbox))),
                             Assign(properties, Copy(data, {"bbox", "width", "height"})))
          [] type = "measurement-along" ->
                IF ~lineStringOk(coords(data.points))
                THEN Thrown
                ELSE Feature(id,
                             geometryCollection(lineStringGeometry(coords(data.points)),
                                                pointGeometry(coord(data.alongPoint))),
                             Assign(properties,
                                    Copy(data, {"lengthM", "lengthKm",
                                                "alongDistance", "alongPoint"})))
          [] OTHER -> Thrown    \* feature stays null: no kind matched

\* coordinates.slice(0, -1) mapped back to points
decloseRing(ring) == latlngs(Front(ring))

geoJSONToElement(feature) ==
    LET props == feature.properties
        geom == feature.geometry
        type == props.type
        id == IF feature.id # 0 THEN feature.id ELSE props.id
        data == [title |-> OrElse(props, "title", ""),
                 description |-> OrElse(props, "description", ""),
                 color |-> OrElse(props, "color", DefaultColor)]
        typed ==
            CASE type = "marker" ->
                    [lat |-> geom.coordinates[2], lng |-> geom.coordinates[1]]
              [] type = "circle" ->
                    [center |-> latlng(geom.coordinates)] @@ Copy(props, {"radius"})
              [] type \in {"line", "bearing"} ->
                    [start |-> latlng(geom.coordinates[1]),
                     end |-> latlng(geom.coordinates[2])]
                    @@ (IF Truthy(props, "distance") THEN Copy(props, {"distance"}) ELSE <<>>)
                    @@ Copy(props, {"bearing"})
              [] type = "polygon" ->
                    [points |-> decloseRing(geom.coordinates[1])]
              [] type \in {"measurement-distance", "measurement-bearing"} ->
                    [start |-> latlng(geom.coordinates[1]),
                     end |-> latlng(geom.coordinates[2])]
                    @@ Copy(props, {"distanceM", "distanceKm"})
                    @@ (IF Has(props, "bearing")
                        THEN Copy(props, {"bearing", "cardinal"}) ELSE <<>>)
              [] type = "measurement-area" ->
                    [points |-> decloseRing(geom.coordinates[1])]
                    @@ Copy(props, {"areaM2", "areaHa", "areaKm2",
                                    "perimeterM", "perimeterKm"})
              [] type \in {"measurement-center", "measurement-centroid"} ->
                    LET centerProp == IF type = "measurement-center"
                                      THEN "center" ELSE "centroid"
                    IN  [points |-> decloseRing(geom.geometries[1].coordinates[1])]
                        @@ (IF Has(props, centerProp)
                            THEN Copy(props, {centerProp})
                            ELSE (centerProp :> latlng(geom.geometries[2].coordinates)))
                        @@ (IF Truthy(props, "areaM2") THEN Copy(props, {"areaM2"}) ELSE <<>>)
                        @@ (IF Truthy(props, "areaHa") THEN Copy(props, {"areaHa"}) ELSE <<>>)
              [] type = "measurement-bbox" ->
                    [points |-> decloseRing(geom.geometries[1].coordinates[1])]
                    @@ Copy(props, {"bbox", "width", "height"})
              [] type = "measurement-along" ->
                    [points |-> latlngs(geom.geometries[1].coordinates),
                     alongPoint |-> IF Has(props, "alongPoint")
                                    THEN props.alongPoint
                                    ELSE latlng(geom.geometries[2].coordinates)]
                    @@ Copy(props, {"lengthM", "lengthKm", "alongDistance"})
              [] OTHER -> <<>>
    IN  [id |-> id, type |-> type, data |-> Assign(data, typed)]

----------------------------------------------------------------------------
(* state.js, config.js: the application state after construction           *)

DEFAULT_ZOOM == 6
DEFAULT_CENTER == [lat |-> 46, lng |-> 1]

NoDrawing == [startPoint |-> Null, points |-> <<>>, center |-> Null]
\* tempLayers is the number of layers in state.measurement.tempLayers
NoMeasurement == [active |-> "null", points |-> <<>>, result |-> Null, tempLayers |-> 0]

\* `state` once initMap has created the map; map.layers holds the ids of the
\* feature layers that are on the map, map.tempLayers the number of
\* measurement layers on the map; cursorLayer is state.drawing.cursorLayer:
\* "null", "shown" (a layer that is on the map) or "removed" (a layer that
\* was taken off the map, the reference kept), and so are buildingsLayer and
\* buffersLayer; wfs is the number of updateBuildings calls that wait for the
\* answer of the WFS service
InitState ==
    [map |-> [center |-> DEFAULT_CENTER, zoom |-> DEFAULT_ZOOM, layers |-> {},
              tempLayers |-> 0, doubleClickZoom |-> TRUE],
     activeTool |-> "null",
     cursorLayer |-> "null",
     features |-> <<>>,
     featureLayers |-> {},
     folders |-> <<>>,
     featureVisibility |-> <<>>,
     drawing |-> NoDrawing,
     buildingsLayer |-> "null",
     buffersLayer |-> "null",
     wfs |-> 0,
     measurement |-> NoMeasurement]

\* the layer-setting inputs and the two parameter modals of the page
InitDocument ==
    [orthoEnabled |-> FALSE,
     orthoOpacity |-> 50,
     buildingsEnabled |-> FALSE,
     buffersEnabled |-> FALSE,
     bufferRadius |-> 50,
     parcChartreuseEnabled |-> FALSE,
     contourEnabled |-> FALSE,
     contourAltitude |-> 1000,
     modalCircle |-> FALSE,
     modalBearing |-> FALSE,
     modalMeasurementResult |-> FALSE]

NoProbe == [op |-> "init", arg |-> Null, before |-> Null]

----------------------------------------------------------------------------
(* The conversion round trip, on every kind of element                     *)

\* lists of n pairwise distinct locations
PointLists(n) == {ps \in [1..n -> Points] : \A i, j \in 1..n : ps[i] = ps[j] => i = j}
PointPairs == {pq \in Points \X Points : pq[1] # pq[2]}

Common(title, color, folderId) ==
    [title |-> title, description |-> "", color |-> color, folderId |-> folderId]

\* the data createElement and saveMeasurementAsElement give an element of each kind
DrawnData ==
    [marker |-> {[lat |-> p.lat, lng |-> p.lng] : p \in Points},
     circle |-> {[center |-> p, radius |-> 100] : p \in Points},
     line |-> {[points |-> ps, distance |-> 1000 * lengthKm(ps)] :
                  ps \in PointLists(2) \cup PointLists(3)}
              \cup {[start |-> pq[1], end |-> pq[2], distance |-> distanceM(pq[1], pq[2])] :
                       pq \in PointPairs},
     bearing |-> {[start |-> pq[1], end |-> pq[2], distance |-> distanceM(pq[1], pq[2]),
                      bearing |-> 45] : pq \in PointPairs},
     polygon |-> {[points |-> ps] : ps \in PointLists(3)}]

MeasuredResults ==
    {calculateDistance(pq[1], pq[2]) : pq \in PointPairs}
    \cup {calculateBearing(pq[1], pq[2]) : pq \in PointPairs}
    \cup {calculateArea(ps) : ps \in PointLists(3)}
    \cup {calculateCenter(ps) : ps \in PointLists(3)}
    \cup {calculateCentroid(ps) : ps \in PointLists(3)}
    \cup {calculateBbox(ps) : ps \in PointLists(3)}
    \cup {calculateAlong(ps) : ps \in PointLists(2) \cup PointLists(3)}

FolderIds == NoFolder..MaxFolders

ValidElements ==
    {[id |-> 1, type |-> kind,
      data |-> Assign(d, Common("Titre", colors("drawing-" \o kind), f))] :
        kind \in {"marker"}, d \in DrawnData.marker, f \in FolderIds}
    \cup {[id |-> 1, type |-> "circle",
           data |-> Assign(d, Common("Titre", colors("drawing-circle"), f))] :
             d \in DrawnData.circle, f \in FolderIds}
    \cup {[id |-> 1, type |-> "line",
           data |-> Assign(d, Common("Titre", colors("drawing-line"), f))] :
             d \in DrawnData.line, f \in FolderIds}
    \cup {[id |-> 1, type |-> "bearing",
           data |-> Assign(d, Common("Titre", colors("drawing-bearing"), f))] :
             d \in DrawnData.bearing, f \in FolderIds}
    \cup {[id |-> 1, type |-> "polygon",
           data |-> Assign(d, Common("Titre", colors("drawing-polygon"), f))] :
             d \in DrawnData.polygon, f \in FolderIds}
    \cup {[id |-> 1, type |-> r.type,
           data |-> Assign(r.data, Common(r.title, colors(r.type), f))] :
             r \in MeasuredResults, f \in FolderIds}

InitRoundTrip ==
    /\ state = InitState
    /\ document = InitDocument
    /\ localStorage = Null
    /\ error = "none"
    /\ idCounter = 0
    /\ probe \in {[stage |-> "element", element |-> e] : e \in ValidElements}

\* elementToGeoJSON applied to the element under test
Encode ==
    /\ probe.stage = "element"
    /\ probe' = [stage |-> "feature", element |-> probe.element,
                 feature |-> elementToGeoJSON(probe.element)]
    /\ UNCHANGED <<state, document, localStorage, error, idCounter>>

\* geoJSONToElement applied to the feature obtained
Decode ==
    /\ probe.stage = "feature"
    /\ probe.feature # Thrown
    /\ probe' = [stage |-> "decoded", element |-> probe.element,
                 feature |-> probe.feature,
                 back |-> geoJSONToElement(probe.feature)]
    /\ UNCHANGED <<state, document, localStorage, error, idCounter>>

NextRoundTrip == Encode \/ Decode

SpecRoundTrip == InitRoundTrip /\ [][NextRoundTrip]_vars

\* C1: for every kind and every valid element e, geoJSONToElement(elementToGeoJSON(e))
\* is an element with the id, the type and every data field of e: the encoding
\* yields a feature, and the element decoded from it equals e.
RoundTripLaw ==
    /\ probe.stage = "feature" => probe.feature # Thrown
    /\ probe.stage = "decoded" =>
          /\ probe.back.id = probe.element.id
          /\ probe.back.type = probe.element.type
          /\ probe.back.data = probe.element.data

----------------------------------------------------------------------------
(* The world a handler runs in, and the plumbing of handlers               *)

World == [state |-> state, document |-> document, localStorage |-> localStorage,
          error |-> error, idCounter |-> idCounter]

\* the variables after a handler that started in the current world ended in w;
\* probe keeps which handler ran, on which input, and what it started from
Becomes(w, op, arg, before) ==
    /\ state' = w.state
    /\ document' = w.document
    /\ localStorage' = w.localStorage
    /\ error' = w.error
    /\ idCounter' = w.idCounter
    /\ probe' = [op |-> op, arg |-> arg, before |-> before]

\* a handler starts with no error pending
Started == [World EXCEPT !.error = "none"]

Failed(w) == w.error = "uncaught"
Throw(w) == [w EXCEPT !.error = "uncaught"]
\* try { ... } catch { console.error / alert }: the error is reported, not rethrown
Catch(w) == IF Failed(w) THEN [w EXCEPT !.error = "caught"] ELSE w

SetState(w, st) == [w EXCEPT !.state = st]

----------------------------------------------------------------------------
(* persistence.js: saveState                                               *)

\* JSON.stringify / JSON.parse: a text is [json |-> value] when it is the
\* serialisation of value, and [raw |-> ...] when it is no JSON at all
JSONStringify(value) == [json |-> value]
JSONParses(text) == Has(text, "json")
JSONParse(text) == text.json

\* state.featureVisibility.get(id) !== false
IsVisible(st, id) == IF id \in DOMAIN st.featureVisibility
                     THEN st.featureVisibility[id] ELSE TRUE

\* Number.parseInt(input.value, 10) || fallback
ParseIntOr(value, fallback) == IF value # 0 THEN value ELSE fallback

layerSettingsOf(doc) ==
    [orthoEnabled |-> doc.orthoEnabled,
     orthoOpacity |-> ParseIntOr(doc.orthoOpacity, 50),
     buildingsEnabled |-> doc.buildingsEnabled,
     buffersEnabled |-> doc.buffersEnabled,
     bufferRadius |-> ParseIntOr(doc.bufferRadius, 50),
     parcChartreuseEnabled |-> doc.parcChartreuseEnabled,
     contourEnabled |-> doc.contourEnabled,
     contourAltitude |-> ParseIntOr(doc.contourAltitude, 1000)]

featureWithVisibility(st, f) ==
    [f EXCEPT !.properties = Assign(f.properties, "_visible" :> IsVisible(st, f.id))]

\* the FeatureCollection saveState writes (savedAt, the clock's reading, left out)
savedDocument(w) ==
    LET st == w.state
    IN  [type |-> "FeatureCollection",
         features |-> [i \in 1..Len(st.features) |->
                          featureWithVisibility(st, st.features[i])],
         properties |-> [center |-> st.map.center,
                         zoom |-> st.map.zoom,
                         version |-> "4.1",
                         folders |-> st.folders,
                         layerSettings |-> layerSettingsOf(w.document)]]

saveState(w) == [w EXCEPT !.localStorage = Some(JSONStringify(savedDocument(w)))]

\* the map's moveend listener (map.js); a setView that moves the map without
\* animation fires it before returning
moveend(w) == saveState(w)

setView(w, center, zoom, fires) ==
    LET moved == [w EXCEPT !.state.map.center = center, !.state.map.zoom = zoom]
    IN  IF fires THEN moveend(moved) ELSE moved

----------------------------------------------------------------------------
(* geojson.js: restoreFeature, restoreMeasurementFeature; layers.js        *)

\* createLayerFromFeature reads properties and geometry of the feature
layerCreatable(feature) == Has(feature, "properties") /\ Has(feature, "geometry")

\* restoreFeature that shows every feature, whatever its saved flag
restoreFeatureShown(w, feature, visible) ==
    IF ~layerCreatable(feature)
    THEN Throw(w)
    ELSE LET st == w.state
         IN  SetState(w,
                [st EXCEPT
                    !.map.layers = @ \cup {feature.id},
                    !.features = Append(@, feature),
                    !.featureLayers = @ \cup {feature.id},
                    !.featureVisibility = (feature.id :> TRUE) @@ @])

restoreFeature(w, feature, visible) ==
    IF ~layerCreatable(feature)
    THEN Throw(w)
    ELSE LET st == w.state
         IN  SetState(w,
                [st EXCEPT
                    !.map.layers = IF visible THEN @ \cup {feature.id} ELSE @,
                    !.features = Append(@, feature),
                    !.featureLayers = @ \cup {feature.id},
                    !.featureVisibility = (feature.id :> visible) @@ @])

restoreMeasurementFeature(w, feature, visible) == restoreFeature(w, feature, visible)

\* the inputs restoreLayerSettings sets; each is left alone when the saved
\* settings lack its field
restoreLayerSettings(w, settings) ==
    [w EXCEPT !.document =
        Copy(settings, {"orthoEnabled", "orthoOpacity", "buildingsEnabled",
                        "buffersEnabled", "bufferRadius", "parcChartreuseEnabled",
                        "contourEnabled", "contourAltitude"}) @@ @]

\* data.features.forEach(feature => ...) of restoreState and handleImport
RECURSIVE restoreFeatures(_, _)
restoreFeatures(w, features) ==
    IF features = <<>>
    THEN w
    ELSE LET feature == features[1]
         IN  IF ~(Has(feature, "properties") /\ Has(feature.properties, "type"))
             THEN Throw(w)      \* feature.properties.type.startsWith of undefined
             ELSE LET visible == IF Has(feature.properties, "_visible")
                                 THEN feature.properties._visible ELSE TRUE
                      next == restoreFeature(w, feature, visible)
                  IN  IF Failed(next) THEN next
                      ELSE restoreFeatures(next, Tail(features))

\* the part of restoreState and handleImport after the document is parsed
restoreParsed(w, data, fires, withLayerSettings) ==
    LET props == IF Has(data, "properties") THEN data.properties ELSE <<>>
        w1 == IF Has(props, "center") /\ Has(props, "zoom") /\ props.zoom # 0
              THEN setView(w, props.center, props.zoom, fires)
              ELSE w
        w2 == IF Has(props, "folders") THEN [w1 EXCEPT !.state.folders = props.folders]
              ELSE w1
        w3 == IF withLayerSettings /\ Has(props, "layerSettings")
              THEN restoreLayerSettings(w2, props.layerSettings)
              ELSE w2
    IN  IF ~Has(data, "features")
        THEN Throw(w3)          \* data.features.forEach of undefined
        ELSE restoreFeatures(w3, data.features)

restoreState(w, fires) ==
    IF w.localStorage = Null
    THEN w
    ELSE LET saved == w.localStorage[1]
         IN  IF ~JSONParses(saved)
             THEN Catch(Throw(w))
             ELSE Catch(restoreParsed(w, JSONParse(saved), fires, TRUE))

\* handleImport that adds the document to the collection it finds
handleImportMerging(w, text, fires) ==
    IF ~JSONParses(text)
    THEN Catch(Throw(w))
    ELSE LET restored == restoreParsed(w, JSONParse(text), fires, FALSE)
         IN  IF Failed(restored) THEN Catch(restored) ELSE saveState(restored)

handleImport(w, text, fires) ==
    IF ~JSONParses(text)
    THEN Catch(Throw(w))
    ELSE LET st == w.state
             cleared == SetState(w,
                 [st EXCEPT !.map.layers = @ \ st.featureLayers,
                            !.features = <<>>,
                            !.featureLayers = {},
                            !.featureVisibility = <<>>,
                            !.folders = <<>>])
             restored == restoreParsed(cleared, JSONParse(text), fires, FALSE)
         IN  IF Failed(restored) THEN Catch(restored) ELSE saveState(restored)

----------------------------------------------------------------------------
(* elements.js: the collection store                                       *)

\* utils.js generateId: a fresh id at every call
generateId(w) == w.idCounter + 1

defaultTitle(type) ==
    CASE type = "marker" -> "Marqueur"
      [] type = "circle" -> "Cercle"
      [] type = "line" -> "Ligne"
      [] type = "bearing" -> "Ligne directionnelle"
      [] type = "polygon" -> "Polygone"
      [] OTHER -> type

\* the feature createElement builds, or Thrown when a turf constructor rejects
\* the coordinates
createdFeature(id, type, data) ==
    LET properties ==
            [type |-> type,
             title |-> OrElse(data, "title", defaultTitle(type)),
             description |-> OrElse(data, "description", ""),
             color |-> OrElse(data, "color", colors("drawing-" \o type)),
             folderId |-> OrNull(data, "folderId")]
    IN  CASE type = "marker" ->
                Feature(id, pointGeometry(<<data.lng, data.lat>>), properties)
          [] type = "circle" ->
                Feature(id, pointGeometry(coord(data.center)),
                        Assign(properties, Copy(data, {"radius"})))
          [] type = "line" /\ Has(data, "points") ->
                IF ~lineStringOk(coords(data.points))
                THEN Thrown
                ELSE Feature(id, lineStringGeometry(coords(data.points)),
                             Assign(properties,
                                    "distance" :> 1000 * lengthKm(data.points)))
          [] type \in {"line", "bearing"} /\ ~Has(data, "points") ->
                Feature(id, lineStringGeometry(<<coord(data.start), coord(data.end)>>),
                        Assign(properties,
                               ("distance" :> (IF Truthy(data, "distance")
                                               THEN data.distance
                                               ELSE distanceM(data.start, data.end)))
                               @@ (IF type = "bearing" THEN Copy(data, {"bearing"})
                                   ELSE <<>>)))
          [] type = "polygon" ->
                LET polyCoords == IF data.points = <<>>
                                  THEN <<Null>>    \* [undefined]
                                  ELSE Append(coords(data.points), coord(data.points[1]))
                IN  IF ~polygonOk(polyCoords)
                    THEN Thrown
                    ELSE Feature(id, polygonGeometry(polyCoords), properties)
          [] OTHER -> Thrown    \* feature stays null: feature.id = id throws

\* push the feature, register its layer on the map, mark it visible
\* the three writes of createElement with the visibility flag left out
storeFeatureWithoutFlag(st, feature) ==
    [st EXCEPT !.map.layers = @ \cup {feature.id},
               !.features = Append(@, feature),
               !.featureLayers = @ \cup {feature.id}]

storeFeature(st, feature) ==
    [st EXCEPT !.map.layers = @ \cup {feature.id},
               !.features = Append(@, feature),
               !.featureLayers = @ \cup {feature.id},
               !.featureVisibility = (feature.id :> TRUE) @@ @]

createElement(w, type, data) ==
    LET id == generateId(w)
        w1 == [w EXCEPT !.idCounter = id]
        feature == createdFeature(id, type, data)
    IN  IF feature = Thrown
        THEN Throw(w1)
        ELSE saveState(SetState(w1, storeFeature(w1.state, feature)))

featureIndex(st, id) ==
    IF \E i \in 1..Len(st.features) : st.features[i].id = id
    THEN CHOOSE i \in 1..Len(st.features) :
            /\ st.features[i].id = id
            /\ \A j \in 1..(i - 1) : st.features[j].id # id
    ELSE 0

RemoveAt(s, i) == SubSeq(s, 1, i - 1) \o SubSeq(s, i + 1, Len(s))

\* layer.addTo(map) / map.removeLayer(layer), when the id has a layer
showLayer(st, id, visible) ==
    IF id \notin st.featureLayers THEN st.map.layers
    ELSE IF visible THEN st.map.layers \cup {id} ELSE st.map.layers \ {id}

\* deleteElement leaving the entry of the id in featureVisibility
deleteElementKeepingFlag(w, id) ==
    LET st == w.state
        i == featureIndex(st, id)
    IN  IF i = 0
        THEN w
        ELSE saveState(SetState(w,
                [st EXCEPT !.map.layers = @ \ {id},
                           !.featureLayers = @ \ {id},
                           !.features = RemoveAt(@, i)]))

deleteElement(w, id) ==
    LET st == w.state
        i == featureIndex(st, id)
    IN  IF i = 0
        THEN w
        ELSE saveState(SetState(w,
                [st EXCEPT !.map.layers = @ \ {id},
                           !.featureLayers = @ \ {id},
                           !.featureVisibility = [k \in DOMAIN @ \ {id} |-> @[k]],
                           !.features = RemoveAt(@, i)]))

\* toggleElementVisibility without its closing saveState
toggleElementVisibilityUnsaved(w, id) ==
    LET st == w.state
        newVisibility == ~IsVisible(st, id)
    IN  SetState(w,
            [st EXCEPT !.featureVisibility = (id :> newVisibility) @@ @,
                       !.map.layers = showLayer(st, id, newVisibility)])

toggleElementVisibility(w, id) ==
    LET st == w.state
        newVisibility == ~IsVisible(st, id)
    IN  saveState(SetState(w,
            [st EXCEPT !.featureVisibility = (id :> newVisibility) @@ @,
                       !.map.layers = showLayer(st, id, newVisibility)]))

featureIds(st) == {st.features[i].id : i \in 1..Len(st.features)}

\* toggleAllElementsVisibility showing everything as soon as one feature is
\* hidden
toggleAllShowingWhenAnyHidden(w, forceVisible) ==
    LET st == w.state
        targetVisibility ==
            IF forceVisible # Null THEN forceVisible[1]
            ELSE \E id \in featureIds(st) : ~IsVisible(st, id)
    IN  saveState(SetState(w,
            [st EXCEPT
                !.featureVisibility =
                    [id \in featureIds(st) |-> targetVisibility] @@ @,
                !.map.layers =
                    IF targetVisibility
                    THEN @ \cup (featureIds(st) \cap st.featureLayers)
                    ELSE @ \ featureIds(st),
                !.folders =
                    [i \in 1..Len(@) |-> [@[i] EXCEPT !.visible = targetVisibility]]]))

\* toggleAllElementsVisibility flipping each feature's own flag
toggleAllFlippingEach(w, forceVisible) ==
    LET st == w.state
        flipped == [id \in featureIds(st) |-> ~IsVisible(st, id)]
    IN  saveState(SetState(w,
            [st EXCEPT
                !.featureVisibility = flipped @@ @,
                !.map.layers =
                    (@ \ featureIds(st))
                    \cup {id \in featureIds(st) \cap st.featureLayers : flipped[id]}]))

\* forceVisible is Null when the button's handler passes no argument
toggleAllElementsVisibility(w, forceVisible) ==
    LET st == w.state
        targetVisibility ==
            IF forceVisible # Null THEN forceVisible[1]
            ELSE ~(\E id \in featureIds(st) : IsVisible(st, id))
    IN  saveState(SetState(w,
            [st EXCEPT
                !.featureVisibility =
                    [id \in featureIds(st) |-> targetVisibility] @@ @,
                !.map.layers =
                    IF targetVisibility
                    THEN @ \cup (featureIds(st) \cap st.featureLayers)
                    ELSE @ \ featureIds(st),
                !.folders =
                    [i \in 1..Len(@) |-> [@[i] EXCEPT !.visible = targetVisibility]]]))

----------------------------------------------------------------------------
(* folders.js                                                              *)

createFolder(w) ==
    LET id == generateId(w)
        folder == [id |-> id, name |-> "Nouveau dossier",
                   collapsed |-> FALSE, visible |-> TRUE]
    IN  saveState([w EXCEPT !.idCounter = id,
                            !.state.folders = Append(@, folder)])

\* the features the list shows inside a folder
folderMembers(st, folderId) ==
    {st.features[i].id : i \in {j \in 1..Len(st.features) :
                                   st.features[j].properties.folderId = folderId}}

\* toggleFolderVisibility cascading to every feature of the collection
toggleFolderVisibilityOfAll(st, folder) ==
    LET members == featureIds(st)
    IN  [st EXCEPT
            !.featureVisibility = [id \in members |-> folder.visible] @@ @,
            !.map.layers = IF folder.visible
                           THEN @ \cup (members \cap st.featureLayers)
                           ELSE @ \ members]

toggleFolderVisibility(st, folder) ==
    LET members == folderMembers(st, folder.id)
    IN  [st EXCEPT
            !.featureVisibility = [id \in members |-> folder.visible] @@ @,
            !.map.layers = IF folder.visible
                           THEN @ \cup (members \cap st.featureLayers)
                           ELSE @ \ members]

\* the listeners createFolderElement binds to the i-th folder of the list
folderCollapseClick(w, i) ==
    saveState([w EXCEPT !.state.folders[i].collapsed = ~@])

folderVisibilityClick(w, i) ==
    LET st == [w.state EXCEPT !.folders[i].visible = ~@]
    IN  saveState(SetState(w, toggleFolderVisibility(st, st.folders[i])))

\* input.value.trim() || 'Dossier'
folderSaveTitle(w, i, value) ==
    saveState([w EXCEPT !.state.folders[i].name =
                            IF value = "" THEN "Dossier" ELSE value])

\* folderDeleteClick taking the folder's members out of the collection
folderDeleteWithMembers(w, i) ==
    LET st == w.state
        members == folderMembers(st, st.folders[i].id)
        kept == SelectSeq(st.features, LAMBDA f : f.id \notin members)
    IN  saveState(SetState(w,
            [st EXCEPT !.features = kept,
                       !.folders = RemoveAt(@, i)]))

folderDeleteClick(w, i) ==
    LET st == w.state
        members == folderMembers(st, st.folders[i].id)
    IN  saveState(SetState(w,
            [st EXCEPT
                !.features = [k \in 1..Len(@) |->
                                 IF @[k].id \in members
                                 THEN [@[k] EXCEPT !.properties.folderId = NoFolder]
                                 ELSE @[k]],
                !.folders = RemoveAt(@, i)]))

\* handleDrop leaving the dropped feature shown in a hidden folder
handleDropKeepingVisibility(w, draggedElementId, targetFolderId) ==
    LET st == w.state
        i == featureIndex(st, draggedElementId)
    IN  IF i = 0
        THEN w
        ELSE saveState(SetState(w,
                [st EXCEPT !.features[i].properties.folderId = targetFolderId]))

handleDrop(w, draggedElementId, targetFolderId) ==
    LET st == w.state
        i == featureIndex(st, draggedElementId)
        hidden == /\ targetFolderId # NoFolder
                  /\ \E k \in 1..Len(st.folders) :
                        /\ st.folders[k].id = targetFolderId
                        /\ ~st.folders[k].visible
    IN  IF i = 0
        THEN w
        ELSE saveState(SetState(w,
                [st EXCEPT
                    !.features[i].properties.folderId = targetFolderId,
                    !.featureVisibility =
                        IF hidden THEN (draggedElementId :> FALSE) @@ @ ELSE @,
                    !.map.layers =
                        IF hidden THEN @ \ {draggedElementId} ELSE @]))

----------------------------------------------------------------------------
(* state.js, drawing.js, measurements.js: the tool state machines          *)
(* (the temporary layer of the line and polygon tools, which holds no      *)
(* clicked data, is left out)                                              *)

resetDrawingState(w) == [w EXCEPT !.state.drawing = NoDrawing]

clearCursorLayer(w) == [w EXCEPT !.state.cursorLayer = "null"]

\* resetMeasurementState with the layers of tempLayers left on the map
resetMeasurementStateKeepingLayers(w) ==
    [w EXCEPT !.state.measurement = NoMeasurement]

\* each layer of tempLayers is taken off the map, then the list is emptied
resetMeasurementState(w) ==
    [w EXCEPT !.state.map.tempLayers = @ - w.state.measurement.tempLayers,
              !.state.measurement = NoMeasurement]

setActiveTool(w, tool) ==
    LET w0 == clearCursorLayer(w)
        w1 == IF w0.state.activeTool \in {"polygon", "line"}
              THEN [resetDrawingState(w0) EXCEPT !.state.map.doubleClickZoom = TRUE]
              ELSE w0
    IN  [w1 EXCEPT !.state.activeTool = tool,
                   !.state.map.doubleClickZoom =
                       IF tool \in {"polygon", "line"} THEN FALSE ELSE @]

cancelMeasurement(w) ==
    [clearCursorLayer(resetMeasurementState(w)) EXCEPT !.state.map.doubleClickZoom = TRUE]

\* startMeasurement with the running measurement left as it is
startMeasurementWithoutCancel(w, type) ==
    LET w1 == setActiveTool(w, "null")
    IN  [w1 EXCEPT !.state.measurement.active = type,
                   !.state.map.doubleClickZoom =
                       IF type \in {"area", "center", "centroid", "bbox", "along"}
                       THEN FALSE ELSE @]

startMeasurement(w, type) ==
    LET w1 == cancelMeasurement(setActiveTool(w, "null"))
    IN  [w1 EXCEPT !.state.measurement.active = type,
                   !.state.map.doubleClickZoom =
                       IF type \in {"area", "center", "centroid", "bbox", "along"}
                       THEN FALSE ELSE @]

completeMeasurement(w) ==
    LET type == w.state.measurement.active
        points == w.state.measurement.points
        result == CASE type = "distance" -> calculateDistance(points[1], points[2])
                    [] type = "bearing" -> calculateBearing(points[1], points[2])
                    [] type = "area" -> calculateArea(points)
                    [] type = "center" -> calculateCenter(points)
                    [] type = "centroid" -> calculateCentroid(points)
                    [] type = "bbox" -> calculateBbox(points)
                    [] type = "along" -> calculateAlong(points)
    IN  IF type = "null" \/ Len(points) < 2 THEN w
        ELSE IF type \in {"area", "center", "centroid", "bbox"} /\ Len(points) < 3 THEN w
        ELSE [w EXCEPT !.state.measurement.result = Some(result),
                       !.document.modalMeasurementResult = TRUE]

\* handleMeasurementClick with the completion on the second point left out
handleMeasurementClickWithoutCompletion(w, at) ==
    [w EXCEPT !.state.measurement.points = Append(@, at),
              !.state.measurement.tempLayers = @ + 1,
              !.state.map.tempLayers = @ + 1]

\* the marker of the point, and for the kinds finished by a double click the
\* line through the points once there are two, are put on the map and kept
\* in tempLayers
handleMeasurementClick(w, at) ==
    LET type == w.state.measurement.active
        points == Append(w.state.measurement.points, at)
        added == IF type \in {"area", "center", "centroid", "bbox", "along"}
                    /\ Len(points) >= 2
                 THEN 2 ELSE 1
        w1 == [w EXCEPT !.state.measurement.points = points,
                        !.state.measurement.tempLayers = @ + added,
                        !.state.map.tempLayers = @ + added]
    IN  IF type \in {"distance", "bearing"} /\ Len(points) = 2
        THEN completeMeasurement(w1)
        ELSE w1

\* saveMeasurementAsElement with the staged result kept after the save
saveMeasurementKeepingResult(w, name) ==
    IF w.state.measurement.result = Null
    THEN w
    ELSE LET result == w.state.measurement.result[1]
             id == generateId(w)
             w1 == [w EXCEPT !.idCounter = id]
             elementData ==
                 Assign(result.data,
                        [title |-> IF name # "" THEN name ELSE result.title,
                         measurementType |-> result.type,
                         color |-> colors(result.type)])
             feature == elementToGeoJSON([id |-> id, type |-> result.type,
                                          data |-> elementData])
         IN  IF feature = Thrown
             THEN Throw(w1)
             ELSE saveState(SetState(w1, storeFeature(w1.state, feature)))

\* name is the text of the result's name input; empty, the result's title is used
saveMeasurementAsElement(w, name) ==
    IF w.state.measurement.result = Null
    THEN w
    ELSE LET result == w.state.measurement.result[1]
             id == generateId(w)
             w1 == [w EXCEPT !.idCounter = id]
             elementData ==
                 Assign(result.data,
                        [title |-> IF name # "" THEN name ELSE result.title,
                         measurementType |-> result.type,
                         color |-> colors(result.type)])
             feature == elementToGeoJSON([id |-> id, type |-> result.type,
                                          data |-> elementData])
         IN  IF feature = Thrown
             THEN Throw(w1)
             ELSE LET saved == saveState(SetState(w1, storeFeature(w1.state, feature)))
                  IN  cancelMeasurement(
                          [saved EXCEPT !.document.modalMeasurementResult = FALSE])

\* the listener of btn-discard-measurement
discardMeasurement(w) ==
    cancelMeasurement([w EXCEPT !.document.modalMeasurementResult = FALSE])

handleLineClick(w, at) == [w EXCEPT !.state.drawing.points = Append(@, at)]

handlePolygonClick(w, at) == [w EXCEPT !.state.drawing.points = Append(@, at)]

finishLine(w) ==
    LET w1 == IF Len(w.state.drawing.points) >= 2
              THEN createElement(w, "line",
                                 [points |-> w.state.drawing.points, title |-> "Ligne"])
              ELSE w
    IN  IF Failed(w1) THEN w1
        ELSE setActiveTool(resetDrawingState(w1), "null")

finishPolygon(w) ==
    LET w1 == createElement(w, "polygon",
                            [points |-> w.state.drawing.points, title |-> "Polygone"])
    IN  IF Failed(w1) THEN w1
        ELSE setActiveTool(resetDrawingState(w1), "null")

\* utils.js calculateDestination, on the grid: whole kilometres along an axis
calculateDestination(start, distance, bearing) ==
    LET k == distance \div 1000
    IN  CASE bearing % 360 = 0 -> [lat |-> start.lat + k, lng |-> start.lng]
          [] bearing % 360 = 90 -> [lat |-> start.lat, lng |-> start.lng + k]
          [] bearing % 360 = 180 -> [lat |-> start.lat - k, lng |-> start.lng]
          [] bearing % 360 = 270 -> [lat |-> start.lat, lng |-> start.lng - k]
          [] OTHER -> [lat |-> start.lat + k, lng |-> start.lng + k]

\* radius, distance and angle are the numbers typed in the modal
\* createCircle with the circle tool left active
createCircleKeepingTool(w, radius) ==
    IF radius > 0 /\ w.state.drawing.center # Null
    THEN LET w1 == createElement(w, "circle",
                                 [center |-> w.state.drawing.center[1],
                                  radius |-> radius])
         IN  IF Failed(w1) THEN w1
             ELSE [w1 EXCEPT !.document.modalCircle = FALSE,
                             !.state.drawing.center = Null]
    ELSE w

createCircle(w, radius) ==
    IF radius > 0 /\ w.state.drawing.center # Null
    THEN LET w1 == createElement(w, "circle",
                                 [center |-> w.state.drawing.center[1],
                                  radius |-> radius])
         IN  IF Failed(w1) THEN w1
             ELSE [setActiveTool([w1 EXCEPT !.document.modalCircle = FALSE], "null")
                       EXCEPT !.state.drawing.center = Null]
    ELSE w

createBearingLine(w, distance, angle) ==
    IF distance > 0 /\ w.state.drawing.startPoint # Null
    THEN LET start == w.state.drawing.startPoint[1]
             w1 == createElement(w, "bearing",
                                 [start |-> start,
                                  end |-> calculateDestination(start, distance, angle),
                                  distance |-> distance,
                                  bearing |-> angle])
         IN  IF Failed(w1) THEN w1
             ELSE [setActiveTool([w1 EXCEPT !.document.modalBearing = FALSE], "null")
                       EXCEPT !.state.drawing.startPoint = Null]
    ELSE w

handleEscapeKey(w) ==
    IF w.state.measurement.active # "null"
    THEN cancelMeasurement(w)
    ELSE IF w.state.activeTool = "line" /\ Len(w.state.drawing.points) > 0
    THEN IF Len(w.state.drawing.points) >= 2
         THEN finishLine(w)
         ELSE setActiveTool(resetDrawingState(w), "null")
    ELSE IF w.state.activeTool # "null"
    THEN setActiveTool(resetDrawingState(w), "null")
    ELSE w

----------------------------------------------------------------------------
(* events.js                                                               *)

POLYGON_MEASUREMENTS == {"area", "centroid", "bbox"}

\* the preview layer follows the pointer: the previous one is taken off the
\* map; a new one is put on the map while a measurement or a line, polygon
\* or bearing has a first point
handleMouseMove(w) ==
    LET st == w.state
        removed == IF st.cursorLayer = "null" THEN "null" ELSE "removed"
    IN  IF st.measurement.active # "null" /\ Len(st.measurement.points) > 0
        THEN [w EXCEPT !.state.cursorLayer = "shown"]
        ELSE IF st.activeTool = "null"
        THEN w
        ELSE IF \/ st.activeTool \in {"polygon", "line"} /\ Len(st.drawing.points) > 0
                \/ st.activeTool = "bearing" /\ st.drawing.startPoint # Null
        THEN [w EXCEPT !.state.cursorLayer = "shown"]
        ELSE [w EXCEPT !.state.cursorLayer = removed]

handleMapClick(w, at) ==
    IF w.state.measurement.active # "null"
    THEN handleMeasurementClick(w, at)
    ELSE CASE w.state.activeTool = "marker" ->
                LET w1 == createElement(w, "marker",
                                        [lat |-> at.lat, lng |-> at.lng,
                                         title |-> "Nouveau marqueur"])
                IN  IF Failed(w1) THEN w1 ELSE setActiveTool(w1, "null")
           [] w.state.activeTool = "circle" ->
                [w EXCEPT !.state.drawing.center = Some(at),
                          !.document.modalCircle = TRUE]
           [] w.state.activeTool = "line" -> handleLineClick(w, at)
           [] w.state.activeTool = "polygon" -> handlePolygonClick(w, at)
           [] w.state.activeTool = "bearing" ->
                [w EXCEPT !.state.drawing.startPoint = Some(at),
                          !.document.modalBearing = TRUE]
           [] OTHER -> w

\* handleMapDoubleClick with the duplicate of the second click left in place
handleMapDoubleClickKeepingDuplicate(w) ==
    LET measurement == w.state.measurement
        drawing == w.state.drawing
    IN  IF measurement.active \in POLYGON_MEASUREMENTS /\ Len(measurement.points) >= 3
        THEN completeMeasurement(w)
        ELSE IF measurement.active = "along" /\ Len(measurement.points) >= 2
        THEN completeMeasurement(w)
        ELSE IF w.state.activeTool = "line" /\ Len(drawing.points) >= 2
        THEN finishLine(w)
        ELSE IF w.state.activeTool = "polygon" /\ Len(drawing.points) >= 3
        THEN finishPolygon(w)
        ELSE w

handleMapDoubleClick(w) ==
    LET measurement == w.state.measurement
        drawing == w.state.drawing
    IN  IF measurement.active \in POLYGON_MEASUREMENTS /\ Len(measurement.points) >= 3
        THEN completeMeasurement([w EXCEPT !.state.measurement.points = Front(@)])
        ELSE IF measurement.active = "along" /\ Len(measurement.points) >= 2
        THEN completeMeasurement([w EXCEPT !.state.measurement.points = Front(@)])
        ELSE IF w.state.activeTool = "line" /\ Len(drawing.points) >= 2
        THEN finishLine([w EXCEPT !.state.drawing.points = Front(@)])
        ELSE IF w.state.activeTool = "polygon" /\ Len(drawing.points) >= 3
        THEN finishPolygon([w EXCEPT !.state.drawing.points = Front(@)])
        ELSE w

\* a modal of the page is open
Covered(w) ==
    \/ w.document.modalCircle
    \/ w.document.modalBearing
    \/ w.document.modalMeasurementResult

\* a double click reaches the map as click, click, dblclick at one location;
\* a listener that throws does not keep the later events from being
\* delivered; a modal that a click opens covers the map, and the rest of the
\* gesture does not reach it
doubleClick(w, at) ==
    LET w1 == handleMapClick(w, at)
        w2 == IF Covered(w1) THEN w1
              ELSE handleMapClick([w1 EXCEPT !.error = "none"], at)
        w3 == IF Covered(w2) THEN w2
              ELSE handleMapDoubleClick([w2 EXCEPT !.error = "none"])
    IN  IF Failed(w1) \/ Failed(w2) THEN Throw(w3) ELSE w3

\* the listener of a context-menu item, the menu opened at at
contextMenuItem(w, action, at) ==
    LET w1 == setActiveTool(w, action)
    IN  CASE action = "marker" ->
                LET w2 == createElement(w1, "marker",
                                        [lat |-> at.lat, lng |-> at.lng,
                                         title |-> "Nouveau marqueur"])
                IN  IF Failed(w2) THEN w2 ELSE setActiveTool(w2, "null")
          [] action = "circle" ->
                [w1 EXCEPT !.state.drawing.center = Some(at),
                           !.document.modalCircle = TRUE]
          [] action \in {"line", "polygon"} ->
                [w1 EXCEPT !.state.drawing.points = <<at>>]
          [] action = "bearing" ->
                [w1 EXCEPT !.state.drawing.startPoint = Some(at),
                           !.document.modalBearing = TRUE]

----------------------------------------------------------------------------
(* The drawing tools: the user's gestures on the toolbar, the map, the     *)
(* context menu, the two parameter modals and the keyboard                 *)

Tools == {"marker", "circle", "line", "polygon", "bearing"}
Radii == {0, 100}
Distances == {0, 1000}
Angles == {0, 90}

InitApp ==
    /\ state = InitState
    /\ document = InitDocument
    /\ localStorage = Null
    /\ error = "none"
    /\ idCounter = 0
    /\ probe = NoProbe

\* what a gesture on the map starts from
DrawingBefore ==
    [activeTool |-> state.activeTool,
     active |-> state.measurement.active,
     drawing |-> state.drawing,
     features |-> state.features]

\* the gesture that opened a parameter modal, for the gesture that confirms it
PreviousGesture == [op |-> probe.op, arg |-> probe.arg]

CanCreate(max) == Len(state.features) < max /\ idCounter < MaxIds

\* an open modal covers the page: the toolbar and the map are out of reach
NoModal ==
    /\ ~document.modalCircle
    /\ ~document.modalBearing
    /\ ~document.modalMeasurementResult

ToolButton ==
    \E tool \in Tools :
        /\ NoModal
        /\ Becomes(setActiveTool(Started, tool), "setActiveTool", tool, Null)

MapClick ==
    \E at \in Points :
        /\ NoModal
        /\ Len(state.drawing.points) < MaxDrawPoints
        /\ CanCreate(MaxDrawn)
        /\ Becomes(handleMapClick(Started, at), "click", at, Null)

MapDoubleClick ==
    \E at \in Points :
        /\ NoModal
        /\ Len(state.drawing.points) <= MaxDrawPoints
        /\ CanCreate(MaxDrawn)
        /\ Becomes(doubleClick(Started, at), "dblclick", at, DrawingBefore)

ContextMenu ==
    \E action \in Tools, at \in Points :
        /\ NoModal
        /\ CanCreate(MaxDrawn)
        /\ Becomes(contextMenuItem(Started, action, at), "contextmenu", action,
                   Null)

ConfirmCircle ==
    \E radius \in Radii :
        /\ document.modalCircle
        /\ CanCreate(MaxDrawn)
        /\ Becomes(createCircle(Started, radius), "createCircle", radius,
                   PreviousGesture)

CancelCircle ==
    /\ document.modalCircle
    /\ Becomes([Started EXCEPT !.document.modalCircle = FALSE], "cancelCircle", Null,
               Null)

ConfirmBearing ==
    \E distance \in Distances, angle \in Angles :
        /\ document.modalBearing
        /\ CanCreate(MaxDrawn)
        /\ Becomes(createBearingLine(Started, distance, angle), "createBearingLine",
                   <<distance, angle>>, PreviousGesture)

CancelBearing ==
    /\ document.modalBearing
    /\ Becomes([Started EXCEPT !.document.modalBearing = FALSE], "cancelBearing", Null,
               Null)

EscapeKey ==
    /\ CanCreate(MaxDrawn)
    /\ Becomes(handleEscapeKey(Started), "escape", Null, DrawingBefore)

\* the Supprimer button of a feature's popup
PopupDelete ==
    \E id \in featureIds(state) :
        Becomes(deleteElement(Started, id), "autosave", Null, Null)

NextDrawing ==
    \/ ToolButton
    \/ MapClick
    \/ MapDoubleClick
    \/ ContextMenu
    \/ ConfirmCircle
    \/ CancelCircle
    \/ ConfirmBearing
    \/ CancelBearing
    \/ EscapeKey
    \/ PopupDelete

SpecDrawing == InitApp /\ [][NextDrawing]_vars


\* a double click made with the line or the polygon tool, no measurement running
DrawingDoubleClick ==
    /\ probe.op = "dblclick"
    /\ probe.before.activeTool \in {"line", "polygon"}
    /\ probe.before.active = "null"

\* the points clicked up to and including the double click
ClickedPoints == Append(probe.before.drawing.points, probe.arg)

CreatedOne == Len(state.features) = Len(probe.before.features) + 1

\* C7: a double click that finalizes a line or a polygon creates a feature
\* whose geometry is the single clicks followed by the double click's
\* location once: [c1, ..., cn, d] (the polygon's ring closed on c1)
DoubleClickGeometryIsClickedPoints ==
    (DrawingDoubleClick /\ CreatedOne) =>
        LET feature == Last(state.features)
        IN  /\ feature.properties.type = probe.before.activeTool
            /\ feature.geometry.coordinates =
                  IF probe.before.activeTool = "line"
                  THEN coords(ClickedPoints)
                  ELSE <<Append(coords(ClickedPoints), coord(ClickedPoints[1]))>>

DoubleClickFinalizedPolygon ==
    /\ DrawingDoubleClick
    /\ CreatedOne
    /\ probe.before.activeTool = "polygon"
    /\ Len(probe.before.drawing.points) = 2
    /\ probe.arg # probe.before.drawing.points[2]

MinPoints(tool) == IF tool = "line" THEN 2 ELSE 3

\* C8: a double click that leaves fewer points than the tool's minimum
\* (line 2, polygon 3) is a no-op: no feature is created, nothing is thrown,
\* the tool stays active and the points clicked before it are kept
ShortFinalizationIsNoOp ==
    (DrawingDoubleClick /\ Len(ClickedPoints) < MinPoints(probe.before.activeTool)) =>
        /\ state.features = probe.before.features
        /\ error = "none"
        /\ state.activeTool = probe.before.activeTool
        /\ Len(state.drawing.points) >= Len(probe.before.drawing.points)
        /\ SubSeq(state.drawing.points, 1, Len(probe.before.drawing.points))
              = probe.before.drawing.points

\* C9: createElement, reached from finishPolygon with two points, fails in a
\* controlled way (nothing uncaught, features, featureLayers and
\* featureVisibility as before); reached with three points it appends exactly
\* one feature
CreateElementChecksPointCount ==
    (DrawingDoubleClick /\ probe.before.activeTool = "polygon") =>
        /\ Len(ClickedPoints) = 2 =>
              /\ error # "uncaught"
              /\ state.features = probe.before.features
              /\ state.featureLayers = featureIds(state)
              /\ DOMAIN state.featureVisibility = featureIds(state)
        /\ Len(ClickedPoints) = 3 => CreatedOne

\* C10: once setActiveTool has run, whatever tool was active before, the
\* drawing accumulator is empty: no points, no center, no start point
SetActiveToolEmptiesAccumulator ==
    probe.op = "setActiveTool" => state.drawing = NoDrawing

\* the Escape key pressed with the line or the polygon tool, no measurement running
DrawingEscape ==
    /\ probe.op = "escape"
    /\ probe.before.activeTool \in {"line", "polygon"}
    /\ probe.before.active = "null"

\* C11: Escape pressed with at least 2 points of a line, or at least 3 points
\* of a polygon, creates exactly one feature of the tool's type out of those
\* points; with fewer points it creates nothing; in both cases no tool is
\* active and the accumulator is empty afterwards
EscapeFinishesOrDiscards ==
    DrawingEscape =>
        LET tool == probe.before.activeTool
            points == probe.before.drawing.points
        IN  /\ state.activeTool = "null"
            /\ state.drawing = NoDrawing
            /\ IF Len(points) >= MinPoints(tool)
               THEN /\ CreatedOne
                    /\ Last(state.features).properties.type = tool
                    /\ Last(state.features).geometry.coordinates =
                          IF tool = "line" THEN coords(points)
                          ELSE <<Append(coords(points), coord(points[1]))>>
               ELSE state.features = probe.before.features

\* C12: every explicit cancel empties the accumulator of the machine it
\* cancels: Escape (the measurement when one is running, else the drawing),
\* the Cancel and the Discard button of a measurement, and the Cancel button
\* of the circle modal (the center) and of the bearing modal (the start point)
CancelEmptiesAccumulator ==
    /\ (probe.op = "escape" /\ probe.before.active # "null") =>
           state.measurement = NoMeasurement
    /\ (probe.op = "escape" /\ probe.before.active = "null") =>
           state.drawing = NoDrawing
    /\ probe.op \in {"cancelMeasurement", "discardMeasurement"} =>
           state.measurement = NoMeasurement
    /\ probe.op = "cancelCircle" => state.drawing.center = Null
    /\ probe.op = "cancelBearing" => state.drawing.startPoint = Null

\* the feature a step has appended to the collection
Appended(features, after) ==
    /\ Len(after) = Len(features) + 1
    /\ SubSeq(after, 1, Len(features)) = features

\* C13: with no measurement running, a click with the marker tool appends
\* exactly one marker at the clicked point and leaves no tool active; a click
\* with the circle (bearing) tool followed by the modal's confirmation with a
\* radius (distance) above 0 appends exactly one circle (bearing) anchored at
\* the clicked point, leaves no tool active and clears the center (start
\* point); no click appends more than one feature
SingleShotTools ==
    [][/\ (probe'.op = "click" /\ state.measurement.active = "null"
              /\ state.activeTool = "marker") =>
            /\ Appended(state.features, state'.features)
            /\ Last(state'.features).properties.type = "marker"
            /\ Last(state'.features).geometry.coordinates = coord(probe'.arg)
            /\ state'.activeTool = "null"
       /\ (probe'.op = "createCircle" /\ probe'.arg > 0
              /\ probe'.before.op = "click") =>
            /\ Appended(state.features, state'.features)
            /\ Last(state'.features).properties.type = "circle"
            /\ Last(state'.features).geometry.coordinates = coord(probe'.before.arg)
            /\ Last(state'.features).properties.radius = probe'.arg
            /\ state'.activeTool = "null"
            /\ state'.drawing.center = Null
       /\ (probe'.op = "createBearingLine" /\ probe'.arg[1] > 0
              /\ probe'.before.op = "click") =>
            /\ Appended(state.features, state'.features)
            /\ Last(state'.features).properties.type = "bearing"
            /\ Last(state'.features).geometry.coordinates[1] = coord(probe'.before.arg)
            /\ state'.activeTool = "null"
            /\ state'.drawing.startPoint = Null
       /\ probe'.op = "click" => Len(state'.features) <= Len(state.features) + 1
      ]_vars

SingleShotCircleCreated ==
    /\ probe.op = "createCircle"
    /\ probe.before.op = "click"
    /\ probe.before.arg = Pt(2)
    /\ probe.arg > 0
    /\ state.activeTool = "null"
    /\ Len(state.features) = 1
    /\ state.features[1].properties.type = "circle"
    /\ state.features[1].geometry.coordinates = coord(Pt(2))

----------------------------------------------------------------------------
(* elements.js: the popup of a feature, and the drag of a marker           *)

\* utils.js parsePointsFromText: a line of the text is a point [lat, lng] or
\* unreadable, [junk |-> TRUE]; the unreadable lines are skipped
parsePointsFromText(text) == SelectSeq(text, LAMBDA line : Has(line, "lat"))

\* The popup's inputs, as a form: title, description, color; position, the
\* pair of the lat and lng inputs, radius, and ends, the four inputs of a
\* segment, each Null when absent or when an input does not parse; points,
\* the lines of the textarea

updateMarkerFromPopup(feature, form) ==
    IF form.position # Null
    THEN [feature EXCEPT !.geometry.coordinates = coord(form.position[1])]
    ELSE feature

updateCircleFromPopup(feature, form) ==
    LET moved == updateMarkerFromPopup(feature, form)
    IN  IF form.radius # Null
        THEN [moved EXCEPT !.properties = Assign(@, "radius" :> form.radius[1])]
        ELSE moved

updatePolygonFromPopup(feature, form) ==
    LET newPoints == parsePointsFromText(form.points)
    IN  IF Len(newPoints) >= 3
        THEN [feature EXCEPT !.geometry.coordinates = <<coords(newPoints)>>]
        ELSE feature

\* the two ends typed in the popup of a segment, with the distance between them
updateEnds(feature, form, key) ==
    IF form.ends # Null
    THEN [feature EXCEPT
            !.geometry.coordinates = coords(form.ends[1]),
            !.properties = Assign(@, key :> distanceM(form.ends[1][1], form.ends[1][2]))]
    ELSE feature

updateLineFromPopup(feature, form) ==
    IF Len(feature.geometry.coordinates) # 2      \* the popup shows the textarea
    THEN LET newPoints == parsePointsFromText(form.points)
         IN  IF Len(newPoints) >= 2
             THEN [feature EXCEPT
                     !.geometry.coordinates = coords(newPoints),
                     !.properties = Assign(@, "distance" :> 1000 * lengthKm(newPoints))]
             ELSE feature
    ELSE updateEnds(feature, form, "distance")

updateBearingFromPopup(feature, form) == updateEnds(feature, form, "distance")

updateMeasurementFromPopup(feature, form) ==
    LET type == feature.properties.type
    IN  IF type \in {"measurement-distance", "measurement-bearing"} /\ form.ends # Null
        THEN LET start == form.ends[1][1]
                 end == form.ends[1][2]
                 moved == [feature EXCEPT
                              !.geometry.coordinates = coords(form.ends[1]),
                              !.properties =
                                  Assign(@, [distanceM |-> distanceM(start, end),
                                             distanceKm |-> distanceKm(start, end)])]
                 bearing == (bearingOf(start, end) + 360) % 360
             IN  IF type = "measurement-bearing"
                 THEN [moved EXCEPT
                         !.properties =
                             Assign(@, [bearing |-> bearing,
                                        cardinal |-> getCardinalDirection(bearing)])]
                 ELSE moved
        ELSE feature

updateTypeSpecificFromPopup(feature, form) ==
    LET type == feature.properties.type
    IN  CASE type = "marker" -> updateMarkerFromPopup(feature, form)
          [] type = "circle" -> updateCircleFromPopup(feature, form)
          [] type = "line" -> updateLineFromPopup(feature, form)
          [] type = "bearing" -> updateBearingFromPopup(feature, form)
          [] type = "polygon" -> updatePolygonFromPopup(feature, form)
          [] OTHER -> updateMeasurementFromPopup(feature, form)

\* the Sauvegarder button of the popup of the i-th feature
updateElementFromPopup(w, i, form) ==
    LET feature == w.state.features[i]
        common == [feature EXCEPT
                      !.properties = Assign(@, [title |-> form.title,
                                                description |-> form.description,
                                                color |-> form.color])]
    IN  saveState([w EXCEPT !.state.features[i] =
                                updateTypeSpecificFromPopup(common, form)])

\* the dragend listener createLayerFromFeature gives a marker
markerDragEnd(w, i, pos) ==
    saveState([w EXCEPT !.state.features[i].geometry.coordinates = coord(pos)])


----------------------------------------------------------------------------
(* The collection: creation, edition, visibility, folders, import, reload  *)

\* where the collection is edited
StorePoints == {Pt(1)}
DragPoints == {Pt(2)}
MeasurementTypes == {"distance"}
Zooms == {0, 12}

\* a popup filled in by the user: every input changed and readable
EditedForm ==
    [title |-> "Edite", description |-> "vu", color |-> "#000000",
     position |-> Some(Pt(2)), radius |-> Some(200),
     ends |-> Some(<<Pt(2), Pt(1)>>),
     points |-> <<Pt(2), [junk |-> TRUE], Pt(1), Pt(3)>>]

\* files the user may choose to import
ImportedMarker(id, visible) ==
    LET feature == createdFeature(id, "marker",
                                  [lat |-> 1, lng |-> 11, title |-> "Nouveau marqueur"])
    IN  [feature EXCEPT !.properties = Assign(@, "_visible" :> visible)]

ImportedProperties ==
    [center |-> DEFAULT_CENTER, zoom |-> DEFAULT_ZOOM, version |-> "4.1",
     folders |-> <<[id |-> 21, name |-> "Releves", collapsed |-> TRUE, visible |-> TRUE]>>]

\* a file exported earlier by the application
ExportedText ==
    JSONStringify([type |-> "FeatureCollection",
                   features |-> <<ImportedMarker(11, FALSE)>>,
                   properties |-> ImportedProperties])

\* an exported file whose marker names a folder the file does not hold
DanglingText ==
    JSONStringify([type |-> "FeatureCollection",
                   features |-> <<[ImportedMarker(11, TRUE)
                                      EXCEPT !.properties.folderId = 22]>>,
                   properties |-> ImportedProperties])

ImportTexts ==
    {[raw |-> "<gpx/>"],
     JSONStringify([type |-> "FeatureCollection", properties |-> ImportedProperties]),
     JSONStringify([features |-> <<ImportedMarker(11, TRUE)>>]),
     JSONStringify([type |-> "FeatureCollection", features |-> <<>>]),
     ExportedText,
     DanglingText,
     JSONStringify([type |-> "FeatureCollection",
                    features |-> <<ImportedMarker(11, TRUE), [type |-> "Feature", id |-> 12]>>])}

\* localStorage holds what saveState would write now
StorageIsCurrent == localStorage = saveState(World).localStorage

ContextMenuMarker ==
    \E at \in StorePoints :
        /\ NoModal
        /\ CanCreate(MaxFeatures)
        /\ Becomes(contextMenuItem(Started, "marker", at), "autosave", Null, Null)

PopupSave ==
    \E i \in 1..Len(state.features) :
        /\ NoModal
        /\ Becomes(updateElementFromPopup(Started, i, EditedForm),
                   "autosave", Null, Null)

MarkerDrag ==
    \E i \in 1..Len(state.features), pos \in DragPoints :
        /\ NoModal
        /\ state.features[i].properties.type = "marker"
        /\ Becomes(markerDragEnd(Started, i, pos), "autosave", Null, Null)

StartMeasurement ==
    \E type \in MeasurementTypes :
        /\ NoModal
        /\ CanCreate(MaxFeatures)
        /\ Becomes(startMeasurement(Started, type), "startMeasurement", Null, Null)

MeasurementClick ==
    \E at \in StorePoints :
        /\ NoModal
        /\ state.measurement.active # "null"
        /\ Len(state.measurement.points) < MaxDrawPoints
        /\ Becomes(handleMapClick(Started, at), "click", Null, Null)

SaveMeasurement ==
    \E name \in {"Mesure"} :
        /\ document.modalMeasurementResult
        /\ CanCreate(MaxFeatures)
        /\ Becomes(saveMeasurementAsElement(Started, name), "autosave", Null, Null)

DiscardMeasurement ==
    /\ document.modalMeasurementResult
    /\ Becomes(discardMeasurement(Started), "discardMeasurement", Null, Null)

ToggleVisibility ==
    \E id \in featureIds(state) :
        /\ NoModal
        /\ Becomes(toggleElementVisibility(Started, id), "autosave", Null, Null)

ToggleAll ==
    /\ NoModal
    /\ Becomes(toggleAllElementsVisibility(Started, Null), "autosave", Null, Null)

CreateFolder ==
    /\ NoModal
    /\ Len(state.folders) < MaxFolders
    /\ idCounter < MaxIds
    /\ Becomes(createFolder(Started), "autosave", Null, Null)

FolderCollapse ==
    \E i \in 1..Len(state.folders) :
        /\ NoModal
        /\ Becomes(folderCollapseClick(Started, i), "autosave", Null, Null)

FolderVisibility ==
    \E i \in 1..Len(state.folders) :
        /\ NoModal
        /\ Becomes(folderVisibilityClick(Started, i), "autosave", Null, Null)

FolderRename ==
    \E i \in 1..Len(state.folders), value \in {"Releves"} :
        /\ NoModal
        /\ Becomes(folderSaveTitle(Started, i, value), "autosave", Null, Null)

FolderDelete ==
    \E i \in 1..Len(state.folders) :
        /\ NoModal
        /\ Becomes(folderDeleteClick(Started, i), "autosave", Null, Null)

Drop ==
    \E id \in featureIds(state),
       target \in {NoFolder} \cup {state.folders[i].id : i \in 1..Len(state.folders)} :
        /\ NoModal
        /\ Becomes(handleDrop(Started, id, target), "autosave", Null, Null)

ImportOf(texts) ==
    \E text \in texts, fires \in BOOLEAN :
        /\ NoModal
        /\ Becomes(handleImport(Started, text, fires), "handleImport", text, Null)

ImportExported == ImportOf({ExportedText})

\* the page is loaded again: a fresh application, then restoreState
Reload ==
    \E fires \in BOOLEAN :
        LET fresh == [state |-> InitState, document |-> InitDocument,
                      localStorage |-> localStorage, error |-> "none",
                      idCounter |-> idCounter]
        IN  Becomes(restoreState(fresh, fires), "restoreState", Null, Null)

\* the user pans or zooms the map: the moveend listener
MapMove ==
    \E center \in DragPoints, zoom \in Zooms :
        /\ NoModal
        /\ Becomes(moveend([Started EXCEPT !.state.map.center = center,
                                           !.state.map.zoom = zoom]),
                   "moveend", Null, Null)

NextStore ==
    \/ ContextMenuMarker
    \/ PopupSave
    \/ MarkerDrag
    \/ PopupDelete
    \/ StartMeasurement
    \/ MeasurementClick
    \/ SaveMeasurement
    \/ DiscardMeasurement
    \/ ToggleVisibility
    \/ ToggleAll
    \/ CreateFolder
    \/ FolderCollapse
    \/ FolderVisibility
    \/ FolderRename
    \/ FolderDelete
    \/ Drop
    \/ ImportExported

SpecStore == InitApp /\ [][NextStore]_vars


------------------------------------------------------------\* the user action that ran last is one of those that close with saveState,
\* and it ran to its end
Autosaved ==
    /\ probe.op \in {"autosave", "handleImport"}
    /\ error = "none"

\* C4: after every completed action that changes the collection (creation,
\* popup save, marker drag, delete, measurement save, visibility toggles,
\* folder create / rename / collapse / delete, drop, successful import) the
\* document in localStorage holds the ids of the features in their order,
\* the visibility flag of each and the folder list
AutosaveEncodesCollection ==
    Autosaved =>
        /\ localStorage # Null
        /\ JSONParses(localStorage[1])
        /\ LET doc == JSONParse(localStorage[1])
           IN  /\ Len(doc.features) = Len(state.features)
               /\ \A i \in 1..Len(state.features) :
                     /\ doc.features[i].id = state.features[i].id
                     /\ doc.features[i].properties._visible
                           = IsVisible(state, state.features[i].id)
               /\ doc.properties.folders = state.folders

AutosavedCollection ==
    /\ Autosaved
    /\ probe.op = "autosave"
    /\ Len(state.features) = 2
    /\ ~IsVisible(state, state.features[1].id)
    /\ IsVisible(state, state.features[2].id)
    /\ Len(state.folders) = 1

----------------
(* Persistence: what an import and a reload do to the collection           *)

Import == ImportOf(ImportTexts)

\* the storage is empty, or holds a document that saveState did not write
InitPersist ==
    /\ state = InitState
    /\ document = InitDocument
    /\ localStorage \in {Null, Some(JSONStringify([features |-> <<ImportedMarker(11, TRUE)>>]))}
    /\ error = "none"
    /\ idCounter = 0
    /\ probe = NoProbe

NextPersist ==
    \/ ContextMenuMarker
    \/ ToggleVisibility
    \/ CreateFolder
    \/ FolderCollapse
    \/ Drop
    \/ Import
    \/ Reload

SpecPersist == InitPersist /\ [][NextPersist]_vars

\* a feature without the flag saveState injects in its properties
Unflagged(feature) ==
    [feature EXCEPT !.properties = Without(@, "_visible")]

SameCollection(a, b) ==
    /\ Len(b.features) = Len(a.features)
    /\ \A i \in 1..Len(a.features) :
          /\ Unflagged(b.features[i]) = Unflagged(a.features[i])
          /\ IsVisible(b, b.features[i].id) = IsVisible(a, a.features[i].id)
    /\ b.folders = a.folders

FailedImportKeepsCollection ==
    [][(probe'.op = "handleImport" /\ error' = "caught") =>
           /\ state'.features = state.features
           /\ state'.featureLayers = state.featureLayers
           /\ state'.featureVisibility = state.featureVisibility
           /\ state'.folders = state.folders]_vars

\* the document lacks type: "FeatureCollection" or the features array
NotAFeatureCollection(text) ==
    /\ JSONParses(text)
    /\ \/ ~Has(JSONParse(text), "type")
       \/ ~Has(JSONParse(text), "features")

\* C6: restoreState and handleImport report an error and restore no feature
\* for a document that lacks type: "FeatureCollection" or lacks the features
\* array; a document with an empty features array is taken without an error
\* and gives the empty collection
RejectsNotAFeatureCollection ==
    [][/\ (probe'.op = "handleImport" /\ NotAFeatureCollection(probe'.arg)) =>
             (error' = "caught" /\ state'.features = <<>>)
       /\ (probe'.op = "restoreState" /\ localStorage # Null
              /\ NotAFeatureCollection(localStorage[1])) =>
             (error' = "caught" /\ state'.features = <<>>)
       /\ (probe'.op = "handleImport" /\ JSONParses(probe'.arg)
              /\ Has(JSONParse(probe'.arg), "features")
              /\ JSONParse(probe'.arg).features = <<>>) =>
             (error' = "none" /\ state'.features = <<>>)]_vars


----------------------------------------------------------------------------
(* layers.js: the layer controls (the tiles and the data the listeners     *)
(* load hold no setting and are left out)                                  *)

Overlays == {"orthoEnabled", "buildingsEnabled", "buffersEnabled",
             "parcChartreuseEnabled", "contourEnabled"}

\* a checkbox is clicked: the browser flips it, then runs its change listener
overlayChange(w, key) == [w EXCEPT !.document[key] = ~@]

\* the input listener of the opacity slider
orthoOpacityInput(w, val) ==
    [w EXCEPT !.document.orthoOpacity = val, !.document.orthoEnabled = TRUE]

\* the input listener of the buffer radius slider
bufferRadiusInput(w, val) ==
    [w EXCEPT !.document.bufferRadius = val,
              !.document.buffersEnabled = TRUE,
              !.document.buildingsEnabled = TRUE]

\* the change listener of the altitude field: the nearest multiple of 5,
\* kept between 0 and 5000
contourAltitudeChange(w, val) ==
    [w EXCEPT !.document.contourAltitude = Max2(0, Min2(5000, ((2 * val + 5) \div 10) * 5)),
              !.document.contourEnabled = TRUE]

Opacities == {0}
BufferRadii == {70}
Altitudes == {0}

OverlayChange ==
    \E key \in Overlays :
        Becomes(overlayChange(Started, key), "overlayChange", Null, Null)

OrthoOpacityInput ==
    \E val \in Opacities :
        Becomes(orthoOpacityInput(Started, val), "orthoOpacityInput", Null, Null)

BufferRadiusInput ==
    \E val \in BufferRadii :
        Becomes(bufferRadiusInput(Started, val), "bufferRadiusInput", Null, Null)

ContourAltitudeChange ==
    \E val \in Altitudes :
        Becomes(contourAltitudeChange(Started, val), "contourAltitudeChange", Null, Null)

NextView ==
    \/ OverlayChange
    \/ OrthoOpacityInput
    \/ BufferRadiusInput
    \/ ContourAltitudeChange
    \/ MapMove
    \/ Reload

SpecView == InitApp /\ [][NextView]_vars

\* the layer settings as the page shows them
LayerInputs(doc) ==
    Copy(doc, Overlays \cup {"orthoOpacity", "bufferRadius", "contourAltitude"})

\* C3: a reload that finds in the storage what saveState writes for the
\* current view restores the same center and zoom and the same value of
\* every layer setting, the value 0 included
ReloadRestoresViewSettings ==
    [][(probe'.op = "restoreState" /\ StorageIsCurrent) =>
           /\ state'.map.center = state.map.center
           /\ state'.map.zoom = state.map.zoom
           /\ LayerInputs(document') = LayerInputs(document)]_vars

----------------------------------------------------------------------------
(* The measurement tools: the measure buttons, the map, the Cancel button, *)
(* the keyboard and the two buttons of the result modal                    *)

AllMeasurementTypes ==
    {"distance", "bearing", "area", "center", "centroid", "bbox", "along"}

ResultNames == {"", "Mesure"}

\* what the measurement machine holds when a button is pressed
MeasurementBefore ==
    [active |-> state.measurement.active,
     points |-> Len(state.measurement.points),
     staged |-> state.measurement.result # Null,
     tempLayers |-> state.map.tempLayers,
     cursorLayer |-> state.cursorLayer]

\* the application with one marker in the collection, put there from the
\* context menu and then hidden from the element list
WithHiddenMarker ==
    LET fresh == [state |-> InitState, document |-> InitDocument,
                  localStorage |-> Null, error |-> "none", idCounter |-> 0]
        marked == contextMenuItem(fresh, "marker", Pt(1))
    IN  toggleElementVisibility(marked, marked.state.features[1].id)

InitMeasure ==
    /\ state = WithHiddenMarker.state
    /\ document = WithHiddenMarker.document
    /\ localStorage = WithHiddenMarker.localStorage
    /\ error = "none"
    /\ idCounter = WithHiddenMarker.idCounter
    /\ probe = NoProbe

\* the measure buttons stay reachable from the keyboard while the result
\* modal is open
MeasureStart ==
    \E type \in AllMeasurementTypes :
        /\ CanCreate(MaxFeatures)
        /\ Becomes(startMeasurement(Started, type), "startMeasurement", type,
                   MeasurementBefore)

MeasureClick ==
    \E at \in Points :
        /\ NoModal
        /\ state.measurement.active # "null"
        /\ Len(state.measurement.points) < MaxDrawPoints
        /\ Becomes(handleMapClick(Started, at), "click", at, Null)

MeasureDoubleClick ==
    \E at \in Points :
        /\ NoModal
        /\ state.measurement.active # "null"
        /\ Len(state.measurement.points) <= MaxDrawPoints
        /\ Becomes(doubleClick(Started, at), "dblclick", at, Null)

MouseMove ==
    /\ NoModal
    /\ Becomes(handleMouseMove(Started), "mousemove", Null, Null)

\* the Cancel button of the measurement status, shown while a measurement runs
MeasureCancel ==
    /\ NoModal
    /\ state.measurement.active # "null"
    /\ Becomes(cancelMeasurement(Started), "cancelMeasurement", Null,
               MeasurementBefore)

MeasureEscape ==
    Becomes(handleEscapeKey(Started), "escape", Null, DrawingBefore)

\* the Save button of the result modal; its listener also runs a second time
\* when the button is pressed twice in a row
MeasureSave ==
    \E name \in ResultNames :
        /\ document.modalMeasurementResult \/ probe.op = "saveMeasurement"
        /\ state.measurement.result # Null => CanCreate(MaxFeatures)
        /\ Becomes(saveMeasurementAsElement(Started, name), "saveMeasurement", Null,
                   MeasurementBefore)

MeasureDiscard ==
    /\ document.modalMeasurementResult
    /\ Becomes(discardMeasurement(Started), "discardMeasurement", Null,
               MeasurementBefore)

NextMeasure ==
    \/ MeasureStart
    \/ MeasureClick
    \/ MeasureDoubleClick
    \/ MouseMove
    \/ MeasureCancel
    \/ MeasureEscape
    \/ MeasureSave
    \/ MeasureDiscard

SpecMeasure == InitMeasure /\ [][NextMeasure]_vars

\* C14: with a distance or a bearing measurement running, the first click on
\* the map stages no result and the second click stages a result of that
\* kind whose start is the first clicked point and whose end is the second,
\* with the distance between them; a staged result of these kinds never
\* comes from fewer or from other points
TwoPointMeasurementCompletes ==
    [][/\ (probe'.op = "click" /\ state.measurement.active \in {"distance", "bearing"}) =>
            LET clicked == state.measurement.points
                result == state'.measurement.result
            IN  /\ Len(clicked) <= 1
                /\ Len(clicked) = 0 =>
                      /\ result = Null
                      /\ state'.measurement.points = <<probe'.arg>>
                /\ Len(clicked) = 1 =>
                      /\ result # Null
                      /\ result[1].type = "measurement-" \o state.measurement.active
                      /\ result[1].data.start = clicked[1]
                      /\ result[1].data.end = probe'.arg
                      /\ result[1].data.distanceM = distanceM(clicked[1], probe'.arg)
       /\ (state'.measurement.active \in {"distance", "bearing"}
              /\ state'.measurement.result # Null) =>
            /\ Len(state'.measurement.points) >= 2
            /\ state'.measurement.result[1].data.start = state'.measurement.points[1]
            /\ state'.measurement.result[1].data.end = state'.measurement.points[2]
      ]_vars

BearingStagedFromTwoClicks ==
    /\ probe.op = "click"
    /\ state.measurement.active = "bearing"
    /\ state.measurement.result # Null
    /\ state.measurement.points = <<Pt(1), Pt(2)>>
    /\ state.measurement.result[1].data.start = Pt(1)
    /\ state.measurement.result[1].data.end = Pt(2)

\* the fewest points a measurement finished by a double click needs
MinMeasurementPoints(type) == IF type = "along" THEN 2 ELSE 3

\* C15: with an area, center, centroid or bbox measurement running, a double
\* click that brings the clicked points to at least 3 (its own location
\* counted once) stages a result over exactly those points, and so does a
\* double click that brings an along measurement to at least 2 points; with
\* fewer points the double click stages nothing
DoubleClickCompletesMeasurement ==
    [][(probe'.op = "dblclick"
           /\ state.measurement.active \in {"area", "center", "centroid", "bbox", "along"}) =>
          LET clicked == Append(state.measurement.points, probe'.arg)
              result == state'.measurement.result
          IN  IF Len(clicked) >= MinMeasurementPoints(state.measurement.active)
              THEN /\ result # Null
                   /\ result[1].type = "measurement-" \o state.measurement.active
                   /\ result[1].data.points = clicked
              ELSE result = Null
      ]_vars

\* C16: from the start of a measurement through its completion and a discard,
\* the features, their layers, the visibility map and the folders stay as
\* they are; after the discard the measurement machine is idle: nothing
\* active, no points, no staged result, no temporary layer in tempLayers or
\* on the map, no preview layer on the map
MeasurementLeavesCollection ==
    [][/\ probe'.op \in {"startMeasurement", "click", "dblclick", "mousemove",
                         "cancelMeasurement", "escape", "discardMeasurement"} =>
            /\ state'.features = state.features
            /\ state'.featureLayers = state.featureLayers
            /\ state'.featureVisibility = state.featureVisibility
            /\ state'.folders = state.folders
            /\ state'.map.layers = state.map.layers
       /\ probe'.op = "discardMeasurement" =>
            /\ state'.measurement = NoMeasurement
            /\ state'.map.tempLayers = 0
            /\ state'.cursorLayer # "shown"
      ]_vars

DiscardedStagedResult ==
    /\ probe.op = "discardMeasurement"
    /\ probe.before.staged
    /\ probe.before.active = "bbox"
    /\ probe.before.tempLayers >= 3
    /\ probe.before.cursorLayer = "shown"
    /\ state.measurement = NoMeasurement
    /\ Len(state.features) = 1
    /\ ~IsVisible(state, state.features[1].id)

\* C17: the Save button of the result modal, pressed with a staged result,
\* appends exactly one feature of the result's kind at the end of the
\* collection, visible, and leaves the measurement machine idle, so that the
\* same result cannot be saved twice; pressed with no staged result it
\* inserts nothing
SaveAppendsStagedResultOnce ==
    [][probe'.op = "saveMeasurement" =>
          IF state.measurement.result # Null
          THEN /\ error' = "none"
               /\ Appended(state.features, state'.features)
               /\ Last(state'.features).properties.type = state.measurement.result[1].type
               /\ Last(state'.features).id \notin featureIds(state)
               /\ IsVisible(state', Last(state'.features).id)
               /\ Last(state'.features).id \in DOMAIN state'.featureVisibility
               /\ Last(state'.features).id \in state'.map.layers
               /\ state'.measurement = NoMeasurement
               /\ ~document'.modalMeasurementResult
          ELSE /\ state'.features = state.features
               /\ state'.featureVisibility = state.featureVisibility
      ]_vars

SavedStagedCentroid ==
    /\ probe.op = "saveMeasurement"
    /\ probe.before.staged
    /\ Len(state.features) = 2
    /\ state.features[2].properties.type = "measurement-centroid"
    /\ IsVisible(state, state.features[2].id)
    /\ state.measurement = NoMeasurement

\* the Save button pressed a second time, nothing staged any more
SavedTwice ==
    /\ probe.op = "saveMeasurement"
    /\ ~probe.before.staged
    /\ Len(state.features) = 2

\* C18: once startMeasurement(t) has run, whatever measurement was running,
\* with whatever points and staged result, the points are empty, no result
\* is staged, no temporary layer is left in tempLayers or on the map, no
\* preview layer is on the map, and t is the active measurement
StartCancelsRunningMeasurement ==
    probe.op = "startMeasurement" =>
        /\ state.measurement.points = <<>>
        /\ state.measurement.result = Null
        /\ state.measurement.tempLayers = 0
        /\ state.map.tempLayers = 0
        /\ state.cursorLayer # "shown"
        /\ state.measurement.active = probe.arg

StartedOverStagedResult ==
    /\ probe.op = "startMeasurement"
    /\ probe.before.active = "along"
    /\ probe.before.points >= 2
    /\ probe.before.staged
    /\ probe.before.tempLayers > 0
    /\ probe.before.cursorLayer = "shown"
    /\ state.measurement.active = "distance"

StartedOverClickedPoints ==
    /\ probe.op = "startMeasurement"
    /\ probe.before.active = "area"
    /\ probe.before.points = 3
    /\ ~probe.before.staged
    /\ state.measurement.active = "area"

----------------------------------------------------------------------------
(* The popup of a feature: what a save does to a feature drawn or measured *)
(* on the map                                                              *)

FreshApp ==
    [state |-> InitState, document |-> InitDocument,
     localStorage |-> Null, error |-> "none", idCounter |-> 0]

\* a bearing line from the context menu and its modal
drawnBearing(start, distance, angle) ==
    createBearingLine(contextMenuItem(FreshApp, "bearing", start), distance, angle)

drawnCircle(center, radius) ==
    createCircle(contextMenuItem(FreshApp, "circle", center), radius)

\* a distance or bearing measurement clicked and saved under its own title
measured(type, ends) ==
    saveMeasurementAsElement(
        handleMeasurementClick(
            handleMeasurementClick(startMeasurement(FreshApp, type), ends[1]),
            ends[2]),
        "")

\* the two inputs createAlongFields puts in the popup of a measurement-along,
\* and whether the popup has an element of class along-point-display: the
\* computed point is shown in a plain computed-value span
createAlongFields(feature) ==
    LET props == feature.properties
    IN  [alongPercent |-> IF Has(props, "alongPercent") THEN props.alongPercent ELSE 50,
         alongDistance |-> IF Has(props, "alongDistance") THEN props.alongDistance
                           ELSE props.lengthM \div 2,
         alongPointDisplay |-> FALSE]

\* setupAlongInputs installs its two listeners only when it finds the two
\* inputs and the display element
alongListening(fields) == fields.alongPointDisplay

\* the user types in the percent input: the listener, if installed, writes
\* the distance input; the feature is not written
alongPercentInput(feature, fields, percent) ==
    LET typed == [fields EXCEPT !.alongPercent = percent]
        lengthM == feature.properties.lengthM
    IN  IF alongListening(fields) /\ lengthM # 0
        THEN [typed EXCEPT !.alongDistance = (percent * lengthM) \div 100]
        ELSE typed

alongDistanceInput(feature, fields, distance) ==
    LET typed == [fields EXCEPT !.alongDistance = distance]
        lengthM == feature.properties.lengthM
    IN  IF alongListening(fields) /\ lengthM # 0
        THEN [typed EXCEPT !.alongPercent = (distance * 100) \div lengthM]
        ELSE typed

\* the collections a popup is opened on: one marker, circle, bearing line,
\* distance or bearing measurement, or the empty collection with the line
\* tool, the polygon tool or the point-along-a-line measurement started, to
\* be clicked, double clicked and, the measurement, saved
PopupSubjects ==
    {contextMenuItem(FreshApp, "marker", p) : p \in Points}
    \cup {drawnCircle(p, 100) : p \in Points}
    \cup {drawnBearing(p, 1000, a) : p \in Points, a \in Angles}
    \cup {setActiveTool(FreshApp, tool) : tool \in {"line", "polygon"}}
    \cup {measured(type, pq) : type \in {"distance", "bearing"}, pq \in PointPairs}
    \cup {startMeasurement(FreshApp, "along")}

\* what the user leaves in the popup: every input readable; one line of the
\* textarea malformed; the coordinate inputs not numbers and too few lines
ReadableForm ==
    [EditedForm EXCEPT !.ends = Some(<<Pt(1), Pt(3)>>),
                       !.points = <<Pt(3), Pt(1), Pt(2)>>]

UnreadableForm ==
    [EditedForm EXCEPT !.position = Null, !.ends = Null,
                       !.points = <<Pt(2), [junk |-> TRUE]>>]

PopupForms == {ReadableForm, EditedForm, UnreadableForm}

InitPopup ==
    \E w \in PopupSubjects :
        /\ state = w.state
        /\ document = w.document
        /\ localStorage = w.localStorage
        /\ error = w.error
        /\ idCounter = w.idCounter
        /\ probe = NoProbe

\* the Sauvegarder button of a popup; the feature as it was is kept aside
PopupEdit ==
    \E i \in 1..Len(state.features), form \in PopupForms :
        Becomes(updateElementFromPopup(Started, i, form), "updateElementFromPopup",
                [index |-> i, form |-> form], state.features[i])

PopupMarkerDrag ==
    \E i \in 1..Len(state.features), pos \in DragPoints :
        /\ state.features[i].properties.type = "marker"
        /\ Becomes(markerDragEnd(Started, i, pos), "dragend", i, state.features[i])

\* the inputs of the popup as createPopupContent fills them from the feature:
\* the textarea of a polygon lists its ring without the last coordinate
createPopupContent(feature) ==
    LET props == feature.properties
        type == props.type
        geom == feature.geometry
        segment == \/ type \in {"bearing", "measurement-distance", "measurement-bearing"}
                   \/ type = "line" /\ Len(geom.coordinates) = 2
    IN  [title |-> props.title,
         description |-> OrElse(props, "description", ""),
         color |-> OrElse(props, "color", DefaultColor),
         position |-> IF type \in {"marker", "circle"}
                      THEN Some(latlng(geom.coordinates)) ELSE Null,
         radius |-> IF type = "circle" THEN Some(props.radius) ELSE Null,
         ends |-> IF segment THEN Some(latlngs(geom.coordinates)) ELSE Null,
         points |-> CASE type = "polygon" -> latlngs(Front(geom.coordinates[1]))
                      [] type = "line" -> latlngs(geom.coordinates)
                      [] OTHER -> <<>>]

\* a popup is opened and Sauvegarder pressed with every input as it was shown
PopupSaveUnchanged ==
    \E i \in 1..Len(state.features) :
        Becomes(updateElementFromPopup(Started, i, createPopupContent(state.features[i])),
                "saveUnchanged", i, state.features[i])

\* what is typed in the two inputs of a measurement-along
AlongPercents == {25, 100}
AlongDistances == {0, 1000}

\* a percent typed in the popup of a measurement-along, then Sauvegarder
PopupAlongPercent ==
    \E i \in 1..Len(state.features), percent \in AlongPercents :
        /\ state.features[i].properties.type = "measurement-along"
        /\ LET feature == state.features[i]
               fields == alongPercentInput(feature, createAlongFields(feature), percent)
           IN  Becomes(updateElementFromPopup(Started, i, Assign(EditedForm, fields)),
                       "alongPercentInput",
                       [index |-> i, typed |-> percent, fields |-> fields], feature)

\* a distance typed in the popup of a measurement-along, then Sauvegarder
PopupAlongDistance ==
    \E i \in 1..Len(state.features), distance \in AlongDistances :
        /\ state.features[i].properties.type = "measurement-along"
        /\ LET feature == state.features[i]
               fields == alongDistanceInput(feature, createAlongFields(feature), distance)
           IN  Becomes(updateElementFromPopup(Started, i, Assign(EditedForm, fields)),
                       "alongDistanceInput",
                       [index |-> i, typed |-> distance, fields |-> fields], feature)

\* the clicks that draw the line or the polygon, or place the points of the
\* measurement, while the collection is empty
PopupDrawing ==
    /\ NoModal
    /\ state.activeTool # "null" \/ state.measurement.active # "null"
    /\ CanCreate(MaxDrawn)

PopupMapClick ==
    \E at \in Points :
        /\ PopupDrawing
        /\ Len(state.drawing.points) < MaxDrawPoints
        /\ Len(state.measurement.points) < MaxDrawPoints
        /\ Becomes(handleMapClick(Started, at), "click", at, Null)

PopupMapDoubleClick ==
    \E at \in Points :
        /\ PopupDrawing
        /\ Becomes(doubleClick(Started, at), "dblclick", at, Null)

NextPopup ==
    \/ PopupEdit
    \/ PopupMarkerDrag
    \/ PopupAlongPercent
    \/ PopupAlongDistance
    \/ PopupMapClick
    \/ PopupMapDoubleClick
    \/ MeasureSave
    \/ PopupSaveUnchanged

SpecPopup == InitPopup /\ [][NextPopup]_vars

\* the derived values a feature stores are those of its geometry
DerivedValuesCurrent(feature) ==
    LET type == feature.properties.type
        props == feature.properties
        ends == latlngs(feature.geometry.coordinates)
        bearing == (bearingOf(ends[1], ends[2]) + 360) % 360
    IN  CASE type = "line" -> props.distance = 1000 * lengthKm(ends)
          [] type = "bearing" ->
                /\ props.distance = distanceM(ends[1], ends[2])
                /\ props.bearing % 360 = bearing
          [] type = "measurement-distance" ->
                /\ props.distanceM = distanceM(ends[1], ends[2])
                /\ props.distanceKm = distanceKm(ends[1], ends[2])
          [] type = "measurement-bearing" ->
                /\ props.distanceM = distanceM(ends[1], ends[2])
                /\ props.distanceKm = distanceKm(ends[1], ends[2])
                /\ props.bearing = bearing
                /\ props.cardinal = getCardinalDirection(bearing)
          [] OTHER -> TRUE

\* C19: whenever a popup save changes the geometry of a feature, every
\* derived value the feature stores is that of the new geometry: the
\* distance of a line, the distance and the bearing of a bearing line, the
\* distanceM, distanceKm, bearing and cardinal of a measurement
PopupSaveRecomputesDerivedValues ==
    [][probe'.op = "updateElementFromPopup" =>
          LET i == probe'.arg.index
          IN  state'.features[i].geometry # state.features[i].geometry
                  => DerivedValuesCurrent(state'.features[i])]_vars

\* the ends of a bearing line were moved and the bearing it stores is still
\* the one typed when it was drawn, not that of the new ends
BearingStaleAfterEndsMoved ==
    /\ probe.op = "updateElementFromPopup"
    /\ probe.before.properties.type = "bearing"
    /\ LET feature == state.features[probe.arg.index]
           ends == latlngs(feature.geometry.coordinates)
       IN  /\ feature.geometry # probe.before.geometry
           /\ feature.properties.distance = distanceM(ends[1], ends[2])
           /\ feature.properties.bearing = probe.before.properties.bearing
           /\ feature.properties.bearing % 360
                  # (bearingOf(ends[1], ends[2]) + 360) % 360

\* a line of the textarea that parsePointsFromText does not read
Malformed(text) == \E k \in 1..Len(text) : ~Has(text[k], "lat")

\* the geometry inputs the popup of the feature shows are not valid
GeometryInputInvalid(feature, form) ==
    LET type == feature.properties.type
        valid == Len(parsePointsFromText(form.points))
    IN  CASE type \in {"marker", "circle"} -> form.position = Null
          [] type = "polygon" -> Malformed(form.points) \/ valid < 3
          [] type = "line" /\ Len(feature.geometry.coordinates) # 2 ->
                Malformed(form.points) \/ valid < 2
          [] type \in {"line", "bearing", "measurement-distance",
                       "measurement-bearing"} -> form.ends = Null
          [] OTHER -> FALSE

\* C20: a popup save whose geometry input is invalid (a malformed line in
\* the points text, too few valid points, a coordinate input that is not a
\* number) is aborted as a whole: no field of the feature is changed, and
\* the geometry is never taken from the valid lines alone
InvalidPopupSaveChangesNothing ==
    [][probe'.op = "updateElementFromPopup" =>
          LET i == probe'.arg.index
          IN  GeometryInputInvalid(state.features[i], probe'.arg.form)
                  => state'.features[i] = state.features[i]]_vars

\* a polygon saved with a malformed line among its points: the title is the
\* one typed and the ring is made of the lines that could be read
PolygonSavedFromValidLines ==
    /\ probe.op = "updateElementFromPopup"
    /\ probe.before.properties.type = "polygon"
    /\ Malformed(probe.arg.form.points)
    /\ LET feature == state.features[probe.arg.index]
       IN  /\ feature.geometry # probe.before.geometry
           /\ feature.geometry.coordinates
                  = <<coords(parsePointsFromText(probe.arg.form.points))>>
           /\ feature.properties.title = probe.arg.form.title
           /\ feature.properties.title # probe.before.properties.title

\* the ring of a Polygon geometry ends where it starts
ringClosed(geometry) ==
    LET ring == geometry.coordinates[1]
    IN  ring # <<>> /\ ring[1] = Last(ring)

\* C21: in every reachable state the Polygon geometry of every stored
\* polygon or measurement-area feature has a closed ring, its last
\* coordinate equal to its first, after a popup edit as after drawing
StoredPolygonRingsClosed ==
    \A i \in 1..Len(state.features) :
        state.features[i].properties.type \in {"polygon", "measurement-area"}
            => ringClosed(state.features[i].geometry)

\* a polygon whose points were saved from its popup: the ring is the three
\* points typed, with no closing coordinate
PolygonRingLeftOpen ==
    /\ probe.op = "updateElementFromPopup"
    /\ probe.before.properties.type = "polygon"
    /\ ringClosed(probe.before.geometry)
    /\ LET ring == state.features[probe.arg.index].geometry.coordinates[1]
       IN  /\ ring = coords(parsePointsFromText(probe.arg.form.points))
           /\ ring[1] # Last(ring)

\* the line of a measurement-along, as points
alongLine(feature) == latlngs(feature.geometry.geometries[1].coordinates)

\* alongPercent * lengthM / 100 = alongDistance, where both are stored
alongRelation(feature) ==
    LET props == feature.properties
    IN  Has(props, "alongPercent") /\ Has(props, "alongDistance")
            => props.alongPercent * props.lengthM = 100 * props.alongDistance

\* C22: on every stored measurement-along that has both values,
\* alongPercent * lengthM / 100 = alongDistance; and after the percent or
\* the distance is edited in its popup the stored feature has the distance
\* that goes with the value typed and the alongPoint at that distance
AlongEditRecomputesStoredValues ==
    [][/\ \A k \in 1..Len(state'.features) :
              state'.features[k].properties.type = "measurement-along"
                  => alongRelation(state'.features[k])
       /\ probe'.op \in {"alongPercentInput", "alongDistanceInput"} =>
              LET feature == state'.features[probe'.arg.index]
                  props == feature.properties
                  distance == IF probe'.op = "alongPercentInput"
                              THEN (probe'.arg.typed * props.lengthM) \div 100
                              ELSE probe'.arg.typed
              IN  /\ alongRelation(feature)
                  /\ props.alongDistance = distance
                  /\ props.alongPoint = alongPoint(alongLine(feature), distance)]_vars

\* 25 % was typed in the popup of a measurement-along and saved: the stored
\* distance and point are still those of the halfway point
AlongEditNotStored ==
    /\ probe.op = "alongPercentInput"
    /\ probe.arg.typed = 25
    /\ LET feature == state.features[probe.arg.index]
           props == feature.properties
       IN  /\ props.lengthM > 0
           /\ props.alongDistance = props.lengthM \div 2
           /\ props.alongPoint = probe.before.properties.alongPoint
           /\ ~Has(props, "alongPercent")
           /\ props.title = "Edite"

----------------------------------------------------------------------------
(* The element list: visibility, folders, drag and drop, deletion          *)

MaxOrgFeatures == 2     \* features kept while the list is organised
MaxOrgFolders == 2      \* folders kept while the list is organised
MaxOrgIds == 4          \* ids generateId hands out while the list is organised

\* ids deleteElement and toggleElementVisibility may be called with: those of
\* the collection and those handed out to a feature that was since deleted
\* (a popup or a list item that outlived its feature)
KnownIds ==
    featureIds(state)
    \cup ((1..idCounter) \ {state.folders[i].id : i \in 1..Len(state.folders)})

\* elements.js updateElementList: the items put under each folder of the
\* folder list, and those of the root container, as positions in
\* state.features
updateElementList(st) ==
    LET folderIdOf(j) == OrNull(st.features[j].properties, "folderId")
        all == 1..Len(st.features)
    IN  [folders |-> [i \in 1..Len(st.folders) |->
                         {j \in all : folderIdOf(j) = st.folders[i].id}],
         root |-> {j \in all : folderIdOf(j) = NoFolder}]

\* some feature of the collection is shown and some is hidden
Mixed(st) ==
    /\ \E id \in featureIds(st) : IsVisible(st, id)
    /\ \E id \in featureIds(st) : ~IsVisible(st, id)

AllShown(st) == \A id \in featureIds(st) : IsVisible(st, id)
AllHidden(st) == \A id \in featureIds(st) : ~IsVisible(st, id)

\* what the list is organised from, and whether the gesture before was the
\* toggle-all button pressed on a mixed collection
OrganizeBefore ==
    [toggledMixed |-> probe.op = "toggleAllElementsVisibility" /\ Mixed(probe.before),
     features |-> state.features,
     featureVisibility |-> state.featureVisibility,
     featureLayers |-> state.featureLayers,
     layers |-> state.map.layers,
     folders |-> state.folders]

OrgCreateMarker ==
    \E at \in StorePoints :
        /\ Len(state.features) < MaxOrgFeatures
        /\ idCounter < MaxOrgIds
        /\ Becomes(contextMenuItem(Started, "marker", at), "createElement", at,
                   OrganizeBefore)

OrgCreateFolder ==
    /\ Len(state.folders) < MaxOrgFolders
    /\ idCounter < MaxOrgIds
    /\ Becomes(createFolder(Started), "createFolder", Null, OrganizeBefore)

OrgToggleVisibility ==
    \E id \in KnownIds :
        Becomes(toggleElementVisibility(Started, id), "toggleElementVisibility", id,
                OrganizeBefore)

\* the button btn-toggle-all-visibility: no argument
OrgToggleAll ==
    Becomes(toggleAllElementsVisibility(Started, Null), "toggleAllElementsVisibility",
            Null, OrganizeBefore)

OrgFolderVisibility ==
    \E i \in 1..Len(state.folders) :
        Becomes(folderVisibilityClick(Started, i), "folderVisibility", i,
                OrganizeBefore)

\* the folder's delete button, the confirm dialog accepted
OrgFolderDelete ==
    \E i \in 1..Len(state.folders) :
        Becomes(folderDeleteClick(Started, i), "folderDelete", i, OrganizeBefore)

\* an item of the list dropped on a folder's content, or on the root
\* container, which the list shows when it has a root item
OrgDrop ==
    \E id \in featureIds(state),
       target \in {NoFolder} \cup {state.folders[i].id : i \in 1..Len(state.folders)} :
        /\ target = NoFolder => updateElementList(state).root # {}
        /\ Becomes(handleDrop(Started, id, target), "handleDrop",
                   [id |-> id, target |-> target], OrganizeBefore)

OrgDelete ==
    \E id \in KnownIds :
        Becomes(deleteElement(Started, id), "deleteElement", id, OrganizeBefore)

NextOrganize ==
    \/ OrgCreateMarker
    \/ OrgCreateFolder
    \/ OrgToggleVisibility
    \/ OrgToggleAll
    \/ OrgFolderVisibility
    \/ OrgFolderDelete
    \/ OrgDrop
    \/ OrgDelete

\* the application after Nouveau dossier was pressed twice
WithTwoFolders == createFolder(createFolder(FreshApp))

InitOrganize ==
    /\ state = WithTwoFolders.state
    /\ document = WithTwoFolders.document
    /\ localStorage = WithTwoFolders.localStorage
    /\ error = "none"
    /\ idCounter = WithTwoFolders.idCounter
    /\ probe = NoProbe

SpecOrganize == InitOrganize /\ [][NextOrganize]_vars

\* the layers on the map are those of the features shown
LayersFollowFlags(st) ==
    \A id \in featureIds(st) :
        id \in st.featureLayers => (id \in st.map.layers <=> IsVisible(st, id))

\* C23, as stated: with no argument, toggleAllElementsVisibility shows every
\* feature if at least one is hidden, and otherwise hides every feature
ToggleAllShowsWhenAnyHidden ==
    [][probe'.op = "toggleAllElementsVisibility" =>
          IF \E id \in featureIds(state) : ~IsVisible(state, id)
          THEN AllShown(state')
          ELSE AllHidden(state')]_vars

\* C23, amended: with no argument, toggleAllElementsVisibility hides every
\* feature if at least one is shown, and otherwise (none is shown) shows
\* every feature; the collection itself is unchanged
ToggleAllHidesWhenAnyShown ==
    [][probe'.op = "toggleAllElementsVisibility" =>
          /\ state'.features = state.features
          /\ LayersFollowFlags(state')
          /\ IF \E id \in featureIds(state) : IsVisible(state, id)
             THEN AllHidden(state')
             ELSE AllShown(state')]_vars

\* the button was pressed with one feature shown and one hidden, and both
\* are hidden now
ToggleAllHidMixedCollection ==
    /\ probe.op = "toggleAllElementsVisibility"
    /\ Len(state.features) = 2
    /\ Mixed(probe.before)
    /\ AllHidden(state)
    /\ state.map.layers \cap featureIds(state) = {}

\* C24: on a collection with a feature shown and a feature hidden,
\* toggleAllElementsVisibility with no argument hides every feature, and a
\* second call then shows every feature; after each call all features have
\* the same flag
ToggleAllTwiceOnMixed ==
    [][probe'.op = "toggleAllElementsVisibility" =>
          /\ AllShown(state') \/ AllHidden(state')
          /\ Mixed(state) => AllHidden(state') /\ ~AllShown(state')
          /\ probe'.before.toggledMixed =>
                 AllShown(state') /\ ~AllHidden(state')]_vars

\* the button was pressed a second time after it hid a mixed collection:
\* both features are shown, with their layers on the map
ToggleAllShownOnSecondCall ==
    /\ probe.op = "toggleAllElementsVisibility"
    /\ probe.before.toggledMixed
    /\ Len(state.features) = 2
    /\ AllShown(state)
    /\ featureIds(state) \subseteq state.map.layers

\* the folder a feature is filed under, NoFolder at the root
folderOf(feature) == OrNull(feature.properties, "folderId")

\* C25: deleting folder F never deletes entities: F leaves the folder list,
\* every entity filed under F gets folderId null, the entities and their
\* order are unchanged, and every other folder and the entities of other
\* folders keep their folderId
FolderDeleteKeepsMembers ==
    [][probe'.op = "folderDelete" =>
          LET i == probe'.arg
              F == state.folders[i].id
          IN  /\ state'.folders = RemoveAt(state.folders, i)
              /\ \A k \in 1..Len(state'.folders) : state'.folders[k].id # F
              /\ Len(state'.features) = Len(state.features)
              /\ \A k \in 1..Len(state.features) :
                    /\ state'.features[k].id = state.features[k].id
                    /\ state'.features[k].geometry = state.features[k].geometry
                    /\ folderOf(state'.features[k]) =
                           IF folderOf(state.features[k]) = F THEN NoFolder
                           ELSE folderOf(state.features[k])
              /\ state'.featureVisibility = state.featureVisibility
              /\ state'.featureLayers = state.featureLayers]_vars

\* a folder holding one feature was deleted while the other folder held the
\* other feature: the first is at the root, the second where it was
FolderDeletedAroundMember ==
    /\ probe.op = "folderDelete"
    /\ Len(state.features) = 2
    /\ Len(state.folders) = 1
    /\ LET F == probe.before.folders[probe.arg].id
       IN  \E k, m \in 1..2 :
              /\ folderOf(probe.before.features[k]) = F
              /\ folderOf(state.features[k]) = NoFolder
              /\ folderOf(probe.before.features[m]) = state.folders[1].id
              /\ folderOf(state.features[m]) = state.folders[1].id

\* the folder of that id is in the list and hidden
HiddenFolder(st, folderId) ==
    \E k \in 1..Len(st.folders) :
        st.folders[k].id = folderId /\ ~st.folders[k].visible

\* C26: moving an entity into a folder sets its folderId to that folder, or
\* to null for the root; into a hidden folder, the entity's flag is false
\* and its layer is off the map afterwards; into a visible folder or the
\* root, the entity's flag is unchanged; no other entity is affected
DropFilesAndHides ==
    [][probe'.op = "handleDrop" =>
          LET id == probe'.arg.id
              target == probe'.arg.target
              i == featureIndex(state, id)
          IN  /\ Len(state'.features) = Len(state.features)
              /\ state'.features[i] =
                     [state.features[i] EXCEPT !.properties.folderId = target]
              /\ \A k \in 1..Len(state.features) :
                     k # i => state'.features[k] = state.features[k]
              /\ \A other \in DOMAIN state.featureVisibility \ {id} :
                     /\ other \in DOMAIN state'.featureVisibility
                     /\ state'.featureVisibility[other] = state.featureVisibility[other]
              /\ state'.map.layers \ {id} = state.map.layers \ {id}
              /\ state'.folders = state.folders
              /\ IF HiddenFolder(state, target)
                 THEN ~IsVisible(state', id) /\ id \notin state'.map.layers
                 ELSE /\ state'.featureVisibility = state.featureVisibility
                      /\ state'.map.layers = state.map.layers]_vars

\* a feature that was shown was dropped on a hidden folder: it is filed
\* there, hidden and off the map, and the other feature is still shown
DroppedIntoHiddenFolder ==
    /\ probe.op = "handleDrop"
    /\ Len(state.features) = 2
    /\ HiddenFolder(state, probe.arg.target)
    /\ LET id == probe.arg.id
           i == featureIndex(state, id)
       IN  /\ IsVisible(probe.before, id)
           /\ id \in probe.before.layers
           /\ folderOf(probe.before.features[i]) # probe.arg.target
           /\ folderOf(state.features[i]) = probe.arg.target
           /\ ~IsVisible(state, id)
           /\ id \notin state.map.layers
           /\ \E other \in featureIds(state) \ {id} :
                  IsVisible(state, other) /\ other \in state.map.layers

\* C27: toggling the visibility of a folder to b sets the flag of every
\* entity filed under it to b, with its layer put on or taken off the map,
\* and leaves the visibility of every entity outside the folder and of
\* every other folder unchanged
FolderVisibilityCascades ==
    [][probe'.op = "folderVisibility" =>
          LET i == probe'.arg
              F == state.folders[i].id
              b == ~state.folders[i].visible
              members == folderMembers(state, F)
          IN  /\ state'.folders = [state.folders EXCEPT ![i].visible = b]
              /\ state'.features = state.features
              /\ \A id \in members :
                     /\ IsVisible(state', id) = b
                     /\ id \in state.featureLayers => (id \in state'.map.layers <=> b)
              /\ \A id \in DOMAIN state.featureVisibility \ members :
                     /\ id \in DOMAIN state'.featureVisibility
                     /\ state'.featureVisibility[id] = state.featureVisibility[id]
              /\ DOMAIN state'.featureVisibility \subseteq
                     DOMAIN state.featureVisibility \cup members
              /\ state'.map.layers \ members = state.map.layers \ members]_vars

\* a folder holding one feature was hidden while the other feature was at
\* the root or in the other folder: the member is hidden and off the map,
\* the other is still shown, the other folder is still visible
FolderHiddenAroundOutsider ==
    /\ probe.op = "folderVisibility"
    /\ Len(state.features) = 2
    /\ Len(state.folders) = 2
    /\ LET F == state.folders[probe.arg]
           G == state.folders[3 - probe.arg]
       IN  /\ ~F.visible
           /\ G.visible
           /\ \E id \in folderMembers(state, F.id) :
                  /\ IsVisible(probe.before, id)
                  /\ ~IsVisible(state, id)
                  /\ id \notin state.map.layers
           /\ \E id \in featureIds(state) \ folderMembers(state, F.id) :
                  /\ IsVisible(state, id)
                  /\ id \in state.map.layers

\* C28: deleteElement(id) for an id of the collection removes exactly that
\* entity from the features list, its layer from the map and from
\* featureLayers, and its entry from featureVisibility; every other entity,
\* with its place among the others and its visibility, and the folder list
\* are unchanged
DeleteRemovesExactlyOne ==
    [][probe'.op = "deleteElement" /\ probe'.arg \in featureIds(state) =>
          LET id == probe'.arg
              i == featureIndex(state, id)
          IN  /\ state'.features = RemoveAt(state.features, i)
              /\ id \notin featureIds(state')
              /\ state'.map.layers = state.map.layers \ {id}
              /\ state'.featureLayers = state.featureLayers \ {id}
              /\ DOMAIN state'.featureVisibility = DOMAIN state.featureVisibility \ {id}
              /\ \A other \in DOMAIN state'.featureVisibility :
                     state'.featureVisibility[other] = state.featureVisibility[other]
              /\ state'.folders = state.folders]_vars

\* the first of two features, filed in a folder, was deleted: the second,
\* which was hidden, is the only one left and is still hidden, and the
\* folder is still there
DeletedFirstOfTwo ==
    /\ probe.op = "deleteElement"
    /\ Len(probe.before.features) = 2
    /\ probe.before.features[1].id = probe.arg
    /\ folderOf(probe.before.features[1]) # NoFolder
    /\ probe.arg \in probe.before.layers
    /\ Len(state.features) = 1
    /\ state.features[1] = probe.before.features[2]
    /\ ~IsVisible(state, state.features[1].id)
    /\ probe.arg \notin DOMAIN state.featureVisibility
    /\ probe.arg \notin state.map.layers
    /\ state.folders = probe.before.folders
    /\ Len(state.folders) = 2

\* C29: deleteElement(id) and toggleElementVisibility(id) with an id that is
\* not in the collection leave the features list, the featureLayers map and
\* the featureVisibility map, its key set included, unchanged
AbsentIdIsNoOp ==
    [][/\ probe'.op \in {"deleteElement", "toggleElementVisibility"}
       /\ probe'.arg \notin featureIds(state)
       => /\ state'.features = state.features
          /\ state'.featureLayers = state.featureLayers
          /\ state'.featureVisibility = state.featureVisibility]_vars

\* the visibility of a deleted feature was toggled: featureVisibility has an
\* entry for an id that no feature has
FlagOfAbsentIdStored ==
    /\ probe.op = "toggleElementVisibility"
    /\ probe.arg \notin featureIds(state)
    /\ probe.arg \notin DOMAIN probe.before.featureVisibility
    /\ probe.arg \in DOMAIN state.featureVisibility
    /\ ~state.featureVisibility[probe.arg]

\* the containers of the element list in which the feature at position j is
\* listed: the positions of folders, and "root"
listedIn(st, j) ==
    LET list == updateElementList(st)
    IN  {i \in 1..Len(st.folders) : j \in list.folders[i]}
        \cup (IF j \in list.root THEN {"root"} ELSE {})

\* C30: every entity is always listed exactly once in the element list: under
\* the folder its folderId references when that folder exists, and at root
\* level when its folderId is null or references no existing folder
EveryEntityListedOnce ==
    \A j \in 1..Len(state.features) :
        LET home == {i \in 1..Len(state.folders) :
                        state.folders[i].id = folderOf(state.features[j])}
        IN  /\ Cardinality(listedIn(state, j)) = 1
            /\ listedIn(state, j) = (IF home # {} THEN home ELSE {"root"})

\* a document was imported whose marker names a folder that the document does
\* not hold: the marker is in the collection and the list shows it nowhere
DanglingEntityListedNowhere ==
    /\ probe.op = "handleImport"
    /\ \E j \in 1..Len(state.features) :
           /\ folderOf(state.features[j]) # NoFolder
           /\ \A i \in 1..Len(state.folders) :
                  state.folders[i].id # folderOf(state.features[j])
           /\ listedIn(state, j) = {}

----------------------------------------------------------------------------
(* Import and restore against the collection they find                     *)

\* the folder list of a document: none when it carries no folders
foldersOf(doc) ==
    IF Has(doc, "properties") /\ Has(doc.properties, "folders")
    THEN doc.properties.folders ELSE <<>>

\* C31: a successful import replaces and does not merge: after it the
\* features are those of the document in its order, the visibility map and
\* the layer map hold exactly the ids of the document's features, the folder
\* list is the document's (empty when it has none), and no feature or folder
\* from before the import is left
ImportReplacesCollection ==
    [][(probe'.op = "handleImport" /\ error' = "none") =>
          LET doc == JSONParse(probe'.arg)
              ids == {doc.features[i].id : i \in 1..Len(doc.features)}
          IN  /\ state'.features = doc.features
              /\ DOMAIN state'.featureVisibility = ids
              /\ state'.featureLayers = ids
              /\ state'.folders = foldersOf(doc)
              /\ featureIds(state') \cap (featureIds(state) \ ids) = {}
              /\ \A i \in 1..Len(state.folders) :
                     \A k \in 1..Len(state'.folders) :
                         state'.folders[k].id = state.folders[i].id =>
                             \E d \in 1..Len(foldersOf(doc)) :
                                 foldersOf(doc)[d].id = state.folders[i].id]_vars

\* a document of one marker and no folder list was imported over a collection
\* of two markers and a folder: only the document's marker is left
ImportedOverCollection ==
    /\ probe.op = "handleImport"
    /\ error = "none"
    /\ JSONParses(probe.arg)
    /\ ~Has(JSONParse(probe.arg), "properties")
    /\ Len(state.features) = 1
    /\ state.features[1].id = 11
    /\ state.folders = <<>>
    /\ idCounter = 3

----------------------------------------------------------------------------
(* Bearings: the bearing modal, the bearing measurement and their popups   *)

\* angles typed in the bearing modal: the input takes any number
BearingAngles == {-90, 90, 450}

BearingMenu ==
    \E at \in Points :
        /\ NoModal
        /\ CanCreate(MaxFeatures)
        /\ Becomes(contextMenuItem(Started, "bearing", at), "contextmenu", "bearing",
                   Null)

BearingConfirm ==
    \E angle \in BearingAngles :
        /\ document.modalBearing
        /\ CanCreate(MaxFeatures)
        /\ Becomes(createBearingLine(Started, 1000, angle), "createBearingLine",
                   <<1000, angle>>, Null)

BearingMeasure ==
    /\ NoModal
    /\ CanCreate(MaxFeatures)
    /\ Becomes(startMeasurement(Started, "bearing"), "startMeasurement", "bearing",
               Null)

BearingClick ==
    \E at \in Points :
        /\ NoModal
        /\ state.measurement.active # "null"
        /\ Len(state.measurement.points) < 2
        /\ Becomes(handleMapClick(Started, at), "click", at, Null)

BearingSave ==
    /\ document.modalMeasurementResult
    /\ CanCreate(MaxFeatures)
    /\ Becomes(saveMeasurementAsElement(Started, ""), "saveMeasurement", Null, Null)

\* the popup of a bearing or of a bearing measurement saved with two ends typed
BearingEdit ==
    \E i \in 1..Len(state.features), ends \in PointPairs :
        /\ NoModal
        /\ Becomes(updateElementFromPopup(Started, i,
                                          [EditedForm EXCEPT !.ends = Some(ends)]),
                   "updateElementFromPopup", [index |-> i, ends |-> ends],
                   state.features[i])

NextBearing ==
    \/ BearingMenu
    \/ BearingConfirm
    \/ BearingMeasure
    \/ BearingClick
    \/ BearingSave
    \/ BearingEdit

InitBearing ==
    /\ state = FreshApp.state
    /\ document = FreshApp.document
    /\ localStorage = FreshApp.localStorage
    /\ error = "none"
    /\ idCounter = FreshApp.idCounter
    /\ probe = NoProbe

SpecBearing == InitBearing /\ [][NextBearing]_vars

bearingInRange(feature) ==
    /\ Has(feature.properties, "bearing")
    /\ feature.properties.bearing >= 0
    /\ feature.properties.bearing <= 360

\* C32: in every reachable state the stored bearing of every bearing and
\* measurement-bearing feature lies between 0 and 360 degrees, whatever angle
\* was typed in the bearing modal and whatever ends were clicked or edited
StoredBearingsInRange ==
    \A i \in 1..Len(state.features) :
        state.features[i].properties.type \in {"bearing", "measurement-bearing"} =>
            bearingInRange(state.features[i])

\* a bearing confirmed with 450 typed as its angle is stored with 450
BearingStoredAsTyped ==
    /\ probe.op = "createBearingLine"
    /\ probe.arg[2] = 450
    /\ Last(state.features).properties.type = "bearing"
    /\ Last(state.features).properties.bearing = 450

\* a bearing measurement from a northern to a southern point, whose turf
\* bearing is negative, is stored with its bearing brought into range
MeasuredBearingsInRange ==
    \A i \in 1..Len(state.features) :
        state.features[i].properties.type = "measurement-bearing" =>
            bearingInRange(state.features[i])

----------------------------------------------------------------------------
(* layers.js: the buildings of the WFS service and their buffers           *)

MIN_ZOOM_BUILDINGS == 16

MaxFetches == 2     \* updateBuildings calls that wait for an answer at one time

\* state.map.removeLayer(layer) when the reference is set
removeLayer(layer) == IF layer = "null" THEN "null" ELSE "removed"

\* updateBuildings up to its await: nothing with the overlay unchecked, both
\* layers off the map below the minimal zoom, else the request is sent
updateBuildings(w) ==
    IF ~w.document.buildingsEnabled
    THEN w
    ELSE IF w.state.map.zoom < MIN_ZOOM_BUILDINGS
    THEN [w EXCEPT !.state.buildingsLayer = removeLayer(@),
                   !.state.buffersLayer = removeLayer(@)]
    ELSE [w EXCEPT !.state.wfs = @ + 1]

\* updateBuildings after its await, the answer read: both layers off the
\* map, a new buildings layer on it and, with the buffers overlay checked, a
\* new buffers layer (renderBuffers)
updateBuildingsAnswered(w) ==
    [w EXCEPT !.state.wfs = @ - 1,
              !.state.buildingsLayer = "shown",
              !.state.buffersLayer = IF w.document.buffersEnabled THEN "shown"
                                     ELSE removeLayer(@)]

\* updateBuildings after its await, the request failed: console.error
updateBuildingsFailed(w) == [w EXCEPT !.state.wfs = @ - 1]

\* the change listener of the buildings checkbox, the box just toggled
buildingsOverlayChange(w) ==
    LET w1 == [w EXCEPT !.document.buildingsEnabled = ~@]
    IN  IF w1.document.buildingsEnabled
        THEN updateBuildings(w1)
        ELSE [w1 EXCEPT !.state.buildingsLayer = removeLayer(@),
                        !.state.buffersLayer = removeLayer(@)]

\* the change listener of the buffers checkbox, the box just toggled
buffersOverlayChange(w) ==
    LET w1 == [w EXCEPT !.document.buffersEnabled = ~@]
    IN  IF w1.document.buildingsEnabled THEN updateBuildings(w1) ELSE w1

\* the input listener of the buffer radius slider, with the request it sends
bufferRadiusInputLoading(w, val) == updateBuildings(bufferRadiusInput(w, val))

\* the moveend listener of the map (map.js): saveState, then updateBuildings
moveendListener(w) == updateBuildings(moveend(w))

BuildingZooms == {15, 16}

BuildingsOverlayChange ==
    /\ state.wfs < MaxFetches
    /\ Becomes(buildingsOverlayChange(Started), "buildingsOverlayChange", Null, Null)

BuffersOverlayChange ==
    /\ state.wfs < MaxFetches
    /\ Becomes(buffersOverlayChange(Started), "buffersOverlayChange", Null, Null)

BuildingsRadiusInput ==
    \E val \in BufferRadii :
        /\ state.wfs < MaxFetches
        /\ Becomes(bufferRadiusInputLoading(Started, val), "bufferRadiusInput", val,
                   Null)

\* the user zooms or pans the map
BuildingsMapMove ==
    \E center \in DragPoints \cup {DEFAULT_CENTER}, zoom \in BuildingZooms :
        /\ state.wfs < MaxFetches
        /\ Becomes(moveendListener([Started EXCEPT !.state.map.center = center,
                                                   !.state.map.zoom = zoom]),
                   "moveend", zoom, Null)

\* the WFS service answers one of the requests that wait
WfsAnswer ==
    /\ state.wfs > 0
    /\ Becomes(updateBuildingsAnswered(Started), "wfsAnswer", Null,
               [enabled |-> document.buildingsEnabled, zoom |-> state.map.zoom])

WfsFailure ==
    /\ state.wfs > 0
    /\ Becomes(updateBuildingsFailed(Started), "wfsFailure", Null, Null)

NextBuildings ==
    \/ BuildingsOverlayChange
    \/ BuffersOverlayChange
    \/ BuildingsRadiusInput
    \/ BuildingsMapMove
    \/ WfsAnswer
    \/ WfsFailure

\* the application as it starts: the overlays unchecked, the map at its
\* default zoom, no request sent
InitBuildings == InitBearing

SpecBuildings == InitBuildings /\ [][NextBuildings]_vars

\* C33: under every interleaving of answers of the WFS service with zoom
\* changes and overlay checkbox toggles, a buildings layer or a buffers layer
\* is on the map only while the buildings overlay is checked and the zoom of
\* the map is at least 16
BuildingsShownOnlyWhenEnabled ==
    (state.buildingsLayer = "shown" \/ state.buffersLayer = "shown") =>
        /\ document.buildingsEnabled
        /\ state.map.zoom >= MIN_ZOOM_BUILDINGS

\* an answer that arrived with the overlay unchecked put the buildings on
\* the map
AnswerShownWithOverlayOff ==
    /\ probe.op = "wfsAnswer"
    /\ ~probe.before.enabled
    /\ ~document.buildingsEnabled
    /\ state.buildingsLayer = "shown"

\* an answer that arrived after the map was zoomed out below 16 put the
\* buildings on the map
AnswerShownBelowMinZoom ==
    /\ probe.op = "wfsAnswer"
    /\ probe.before.enabled
    /\ probe.before.zoom < MIN_ZOOM_BUILDINGS
    /\ state.buildingsLayer = "shown"

----------------------------------------------------------------------------
(* The two input machines together: the toolbar, the context menu, the     *)
(* measure buttons, the map, the keyboard and the modals. The map reports  *)
(* a click to its listeners wherever it receives one: no listener looks at *)
(* the modals                                                              *)

MaxInputPoints == 5     \* points a measurement holds

InputPoints == {Pt(1), Pt(2)}
InputMeasurements == {"distance", "area", "along"}

\* the machines as an event finds them
InputBefore ==
    [op |-> probe.op, arg |-> probe.arg, result |-> state.measurement.result]

InputTool ==
    \E tool \in Tools :
        /\ NoModal
        /\ Becomes(setActiveTool(Started, tool), "setActiveTool", tool, InputBefore)

InputContextMenu ==
    \E action \in Tools, at \in InputPoints :
        /\ NoModal
        /\ CanCreate(MaxDrawn)
        /\ Becomes(contextMenuItem(Started, action, at), "contextmenu", action,
                   InputBefore)

InputMeasure ==
    \E type \in InputMeasurements :
        /\ NoModal
        /\ Becomes(startMeasurement(Started, type), "startMeasurement", type,
                   InputBefore)

\* the click listener of the map
InputClick ==
    \E at \in InputPoints :
        /\ ~document.modalCircle /\ ~document.modalBearing
        /\ CanCreate(MaxDrawn)
        /\ Len(state.drawing.points) < MaxDrawPoints
        /\ Len(state.measurement.points) < MaxInputPoints
        /\ Becomes(handleMapClick(Started, at), "click", at, InputBefore)

\* the dblclick listener of the map: the browser reports a dblclick after
\* the two clicks of the gesture, made at one location
InputDoubleClick ==
    /\ probe.op = "click"
    /\ probe.before.op = "click"
    /\ probe.before.arg = probe.arg
    /\ ~document.modalCircle /\ ~document.modalBearing
    /\ CanCreate(MaxDrawn)
    /\ Becomes(handleMapDoubleClick(Started), "dblclick", probe.arg, InputBefore)

InputEscape ==
    /\ CanCreate(MaxDrawn)
    /\ Becomes(handleEscapeKey(Started), "escape", Null, InputBefore)

InputConfirmCircle ==
    /\ document.modalCircle
    /\ CanCreate(MaxDrawn)
    /\ Becomes(createCircle(Started, 100), "createCircle", 100, InputBefore)

InputConfirmBearing ==
    /\ document.modalBearing
    /\ CanCreate(MaxDrawn)
    /\ Becomes(createBearingLine(Started, 1000, 90), "createBearingLine",
               <<1000, 90>>, InputBefore)

InputSave ==
    /\ document.modalMeasurementResult
    /\ CanCreate(MaxDrawn)
    /\ Becomes(saveMeasurementAsElement(Started, ""), "saveMeasurement", Null,
               InputBefore)

InputDiscard ==
    /\ document.modalMeasurementResult
    /\ Becomes(discardMeasurement(Started), "discardMeasurement", Null, InputBefore)

NextInput ==
    \/ InputTool
    \/ InputContextMenu
    \/ InputMeasure
    \/ InputClick
    \/ InputDoubleClick
    \/ InputEscape
    \/ InputConfirmCircle
    \/ InputConfirmBearing
    \/ InputSave
    \/ InputDiscard

InitInput == InitBearing

SpecInput == InitInput /\ [][NextInput]_vars

\* C34: in every reachable state at most one of state.activeTool and
\* state.measurement.active is set, for every sequence of tool-button
\* clicks, context-menu actions, measurement starts, map clicks, double
\* clicks and Escape presses
OneInputMachineAtATime ==
    state.activeTool = "null" \/ state.measurement.active = "null"

\* a tool button was pressed while a measurement was running: both machines
\* are set
ToolChosenDuringMeasurement ==
    /\ probe.op = "setActiveTool"
    /\ state.activeTool # "null"
    /\ state.measurement.active # "null"

\* starting a measurement leaves no tool active
MeasurementStartClearsTool ==
    [][probe'.op = "startMeasurement" => state'.activeTool = "null"]_vars

\* C35: a staged measurement result is immutable until it is saved or
\* discarded: a click or a double click that the map receives after the
\* completion and before the save or the discard leaves the result as it is,
\* and the feature a save appends has the geometry and the derived values of
\* the staged result
StagedResultImmutable ==
    [][/\ (probe'.op \in {"click", "dblclick"} /\ state.measurement.result # Null) =>
             state'.measurement.result = state.measurement.result
       /\ (probe'.op = "saveMeasurement" /\ state.measurement.result # Null
              /\ error' = "none") =>
             Last(state'.features) =
                 elementToGeoJSON(
                     [id |-> Last(state'.features).id,
                      type |-> state.measurement.result[1].type,
                      data |-> Assign(state.measurement.result[1].data,
                                      [title |-> state.measurement.result[1].title,
                                       measurementType |-> state.measurement.result[1].type,
                                       color |-> colors(state.measurement.result[1].type)])])
      ]_vars

\* an area was staged, and a double click that the map received before the
\* save or the discard staged another area in its place
StagedResultReplaced ==
    /\ probe.op = "dblclick"
    /\ probe.before.result # Null
    /\ state.measurement.result # Null
    /\ state.measurement.result # probe.before.result
    /\ state.measurement.active = "area"

\* a click alone that the map receives leaves a staged result as it is
ClickKeepsStagedResult ==
    [][(probe'.op = "click" /\ state.measurement.result # Null) =>
           state'.measurement.result = state.measurement.result]_vars

----------------------------------------------------------------------------
(* A popup saved as it was opened                                          *)

\* C36: opening the popup of a feature and saving it with no input changed
\* leaves the geometry of the feature as it was, for every kind and at every
\* repetition: the same vertices in the same order, the ring closed as before
UnchangedPopupSaveKeepsGeometry ==
    [][probe'.op = "saveUnchanged" =>
           state'.features[probe'.arg].geometry
               = state.features[probe'.arg].geometry]_vars

\* the popup of a polygon was saved as it was opened: the ring stored has one
\* coordinate less than before
UnchangedSaveShortenedRing ==
    /\ probe.op = "saveUnchanged"
    /\ probe.before.properties.type = "polygon"
    /\ Len(state.features[probe.arg].geometry.coordinates[1])
           = Len(probe.before.geometry.coordinates[1]) - 1

\* the popup of a polygon was saved as it was opened and a vertex that was
\* clicked is no longer in the ring
UnchangedSaveLostVertex ==
    /\ probe.op = "saveUnchanged"
    /\ probe.before.properties.type = "polygon"
    /\ \E k \in 1..Len(probe.before.geometry.coordinates[1]) :
           \A j \in 1..Len(state.features[probe.arg].geometry.coordinates[1]) :
               state.features[probe.arg].geometry.coordinates[1][j]
                   # probe.before.geometry.coordinates[1][k]

\* for every kind but the polygon the save leaves the geometry as it was
UnchangedSaveKeepsOtherGeometry ==
    [][(probe'.op = "saveUnchanged"
           /\ state.features[probe'.arg].properties.type # "polygon") =>
           state'.features[probe'.arg].geometry
               = state.features[probe'.arg].geometry]_vars

\* the features of a document: none when it carries no features array
featuresOf(doc) == IF Has(doc, "features") THEN doc.features ELSE <<>>

\* the document b holds every feature and every folder of the document a
HoldsAllOf(a, b) ==
    /\ \A i \in 1..Len(featuresOf(a)) :
           \E k \in 1..Len(featuresOf(b)) :
               Unflagged(featuresOf(b)[k]) = Unflagged(featuresOf(a)[i])
    /\ \A i \in 1..Len(foldersOf(a)) :
           \E k \in 1..Len(foldersOf(b)) : foldersOf(b)[k] = foldersOf(a)[i]

\* C37: restoreState never loses persisted data: whether or not the moveend
\* listener, which calls saveState, runs from the setView that restores the
\* view, once restoreState has finished the document in localStorage holds
\* every feature and every folder it held before restoreState began
RestoreKeepsStoredDocument ==
    [][(probe'.op = "restoreState" /\ localStorage # Null
           /\ JSONParses(localStorage[1])) =>
           /\ localStorage' # Null
           /\ JSONParses(localStorage'[1])
           /\ HoldsAllOf(JSONParse(localStorage[1]), JSONParse(localStorage'[1]))]_vars

\* after a restoreState that ran to its end the collection holds a feature
\* and the document in localStorage holds none
RestoredButStoredEmpty ==
    /\ probe.op = "restoreState"
    /\ error = "none"
    /\ Len(state.features) > 0
    /\ localStorage # Null
    /\ featuresOf(JSONParse(localStorage[1])) = <<>>

\* what the storage holds is what the collection holds
StoredIsRestored ==
    [][(probe'.op = "restoreState" /\ localStorage # Null
           /\ JSONParses(localStorage[1]) /\ error' = "none") =>
           /\ Len(state'.features) = Len(featuresOf(JSONParse(localStorage[1])))
           /\ state'.folders = foldersOf(JSONParse(localStorage[1]))]_vars

----------------------------------------------------------------------------
(* The three indexes of the collection under every operation of the store  *)

NextIndex ==
    \/ ContextMenuMarker
    \/ StartMeasurement
    \/ MeasurementClick
    \/ SaveMeasurement
    \/ PopupDelete
    \/ ToggleVisibility
    \/ ToggleAll
    \/ CreateFolder
    \/ FolderVisibility
    \/ FolderDelete
    \/ Drop
    \/ Import
    \/ Reload

SpecIndex == InitApp /\ [][NextIndex]_vars

HiddenFolderHidesMembers ==
    \A id \in featureIds(state) :
        HiddenFolder(state, folderOf(state.features[featureIndex(state, id)])) =>
            ~IsVisible(state, id)

\* the visibility of a member of a hidden folder was toggled: the member is
\* shown on the map and its folder is still hidden
MemberShownInHiddenFolder ==
    /\ probe.op = "toggleElementVisibility"
    /\ probe.arg \in featureIds(state)
    /\ HiddenFolder(state, folderOf(state.features[featureIndex(state, probe.arg)]))
    /\ IsVisible(state, probe.arg)
    /\ probe.arg \in state.map.layers

\* every operation but the toggle of one feature leaves the members of the
\* hidden folders hidden
OthersKeepHiddenFolders ==
    [][(probe'.op # "toggleElementVisibility" /\ HiddenFolderHidesMembers) =>
           HiddenFolderHidesMembers']_vars

----------------------------------------------------------------------------
(* The two ways a document is read: restoreState and handleImport          *)

NextCodec ==
    \/ ContextMenuMarker
    \/ ToggleVisibility
    \/ CreateFolder
    \/ Drop
    \/ BufferRadiusInput
    \/ MapMove
    \/ Reload

SpecCodec == InitApp /\ [][NextCodec]_vars

\* the application just started, its collection empty, the document text in
\* its storage
FreshWith(text) ==
    [state |-> InitState, document |-> InitDocument, localStorage |-> Some(text),
     error |-> "none", idCounter |-> idCounter]

\* the two worlds hold the same features in the same order, the same
\* visibility flags, the same folder list and the same map view
SameCollectionAndView(a, b) ==
    /\ a.state.features = b.state.features
    /\ a.state.featureVisibility = b.state.featureVisibility
    /\ a.state.folders = b.state.folders
    /\ a.state.map.center = b.state.map.center
    /\ a.state.map.zoom = b.state.map.zoom

\* C40: restoreState on a document read from localStorage and handleImport
\* on the same document read from a file, each applied to an application
\* with an empty collection, end in the same state: the same features in the
\* same order, the same visibility flags, the same folder list, the same map
\* view and the same layer settings, those of the document's layerSettings
RestoreAndImportAgree ==
    [][(probe'.op = "restoreState" /\ localStorage # Null) =>
           \A fires \in BOOLEAN :
               LET imported == handleImport(FreshWith(localStorage[1]),
                                            localStorage[1], fires)
               IN  /\ SameCollectionAndView(World', imported)
                   /\ LayerInputs(document') = LayerInputs(imported.document)]_vars

\* a document with a hidden marker, a folder and the buffers overlay checked
\* was restored: the page shows the document's layer settings, which are not
\* those of a page just started
RestoredLayerSettings ==
    /\ probe.op = "restoreState"
    /\ error = "none"
    /\ Len(state.features) > 0
    /\ ~IsVisible(state, state.features[1].id)
    /\ Len(state.folders) = 1
    /\ document.buffersEnabled
    /\ LayerInputs(document) # LayerInputs(InitDocument)

\* the two paths agree on the features, the flags, the folders and the view
RestoreAndImportAgreeOnCollection ==
    [][(probe'.op = "restoreState" /\ localStorage # Null) =>
           \A fires \in BOOLEAN :
               SameCollectionAndView(World',
                   handleImport(FreshWith(localStorage[1]), localStorage[1], fires))]_vars

============================================================================
